---- MODULE Spec2Model ----
(***************************************************************************)
(* Model of the css-parser front end: the byte decoder with the inlined    *)
(* input preprocessing (CreateCodePointsStream, UTF8Decode, PushCodePoint) *)
(* and the tokenizer (TokenizeCodePoints, ConsumeToken and the consume-*   *)
(* routines).  Positions are 0-based as in the source; the element at      *)
(* index p of a sequence s is s[p + 1].                                     *)
(***************************************************************************)
EXTENDS Integers, Sequences, FiniteSets, TLC

(***************************************************************************)
(* CodePointValue                                                          *)
(***************************************************************************)
NULL_CODE_POINT == 0
BACKSPACE == 8
CHARACTER_TABULATION == 9
LINE_FEED == 10
LINE_TABULATION == 11
FORM_FEED == 12
CARRIAGE_RETURN == 13
SHIFT_OUT == 14
INFORMATION_SEPARATOR_ONE == 31
SPACE == 32
EXCLAMATION_MARK == 33
QUOTATION_MARK == 34
NUMBER_SIGN == 35
PERCENTAGE_SIGN == 37
APOSTROPHE == 39
LEFT_PARENTHESIS == 40
RIGHT_PARENTHESIS == 41
ASTERISK == 42
PLUS_SIGN == 43
COMMA == 44
HYPHEN_MINUS == 45
FULL_STOP == 46
SOLIDUS == 47
ZERO == 48
NINE == 57
COLON == 58
SEMI_COLON == 59
LESS_THAN_SIGN == 60
GREATER_THAN_SIGN == 62
COMMERCIAL_AT == 64
LATIN_CAPITAL_LETTER_A == 65
LATIN_CAPITAL_LETTER_E == 69
LATIN_CAPITAL_LETTER_F == 70
LATIN_CAPITAL_LETTER_L == 76
LATIN_CAPITAL_LETTER_R == 82
LATIN_CAPITAL_LETTER_U == 85
LATIN_CAPITAL_LETTER_Z == 90
LEFT_SQUARE_BRACKET == 91
REVERSE_SOLIDUS == 92
RIGHT_SQUARE_BRACKET == 93
LOW_LINE == 95
LATIN_SMALL_LETTER_A == 97
LATIN_SMALL_LETTER_E == 101
LATIN_SMALL_LETTER_F == 102
LATIN_SMALL_LETTER_L == 108
LATIN_SMALL_LETTER_R == 114
LATIN_SMALL_LETTER_U == 117
LATIN_SMALL_LETTER_Z == 122
LEFT_CURLY_BRACKET == 123
RIGHT_CURLY_BRACKET == 125
DELETE == 127
CONTROL == 128
REPLACEMENT == 65533
MAXIMUM_ALLOWED_CODE_POINT == 1114111

(***************************************************************************)
(* Code-point predicates                                                   *)
(***************************************************************************)
IsNewline(codePoint) == codePoint = LINE_FEED

IsLeadingSurrogate(codePoint) == codePoint >= 55296 /\ codePoint <= 56319

IsTrailingSurrogate(codePoint) == codePoint >= 56320 /\ codePoint <= 57343

IsSurrogate(codePoint) == IsLeadingSurrogate(codePoint) \/ IsTrailingSurrogate(codePoint)

IsWhitespace(codePoint) ==
    \/ IsNewline(codePoint)
    \/ codePoint = CHARACTER_TABULATION
    \/ codePoint = SPACE

IsDigit(codePoint) == codePoint >= ZERO /\ codePoint <= NINE

IsHexDigit(codePoint) ==
    \/ IsDigit(codePoint)
    \/ (codePoint >= LATIN_CAPITAL_LETTER_A /\ codePoint <= LATIN_CAPITAL_LETTER_F)
    \/ (codePoint >= LATIN_SMALL_LETTER_A /\ codePoint <= LATIN_SMALL_LETTER_F)

IsUppercaseLetter(codePoint) ==
    codePoint >= LATIN_CAPITAL_LETTER_A /\ codePoint <= LATIN_CAPITAL_LETTER_Z

IsLowercaseLetter(codePoint) ==
    codePoint >= LATIN_SMALL_LETTER_A /\ codePoint <= LATIN_SMALL_LETTER_Z

IsLetter(codePoint) == IsUppercaseLetter(codePoint) \/ IsLowercaseLetter(codePoint)

IsNonASCII(codePoint) == codePoint >= CONTROL

IsIdentStart(codePoint) ==
    IsLetter(codePoint) \/ IsNonASCII(codePoint) \/ codePoint = LOW_LINE

\* IsIdent as it would be if HYPHEN_MINUS were not an ident code point.
IsIdentWithoutHyphen(codePoint) == IsIdentStart(codePoint) \/ IsDigit(codePoint)

IsIdent(codePoint) ==
    IsIdentStart(codePoint) \/ IsDigit(codePoint) \/ codePoint = HYPHEN_MINUS

IsNonPrintable(codePoint) ==
    \/ (codePoint >= NULL_CODE_POINT /\ codePoint <= BACKSPACE)
    \/ codePoint = LINE_TABULATION
    \/ (codePoint >= SHIFT_OUT /\ codePoint <= INFORMATION_SEPARATOR_ONE)
    \/ codePoint = DELETE

(***************************************************************************)
(* Tokens.  Every token is a record of the same shape: type, the code      *)
(* point payload (value; the unit of a Dimension; the one code point of a  *)
(* Delim), the flag (m_IsID of a Hash, m_IsInteger of a numeric token) and *)
(* the numeric payload.                                                    *)
(***************************************************************************)
NoNumber == [kind |-> "none", val |-> 0, exp |-> 0]

Token(type) == [type |-> type, value |-> <<>>, flag |-> FALSE, num |-> NoNumber]

CreateDelim(value) == [Token("Delim") EXCEPT !.value = <<value>>]

CreateHash(value, isID) == [Token("Hash") EXCEPT !.value = value, !.flag = isID]

CreateString(value) == [Token("String") EXCEPT !.value = value]

CreateFunction(value) == [Token("Function") EXCEPT !.value = value]

CreateIdent(value) == [Token("Ident") EXCEPT !.value = value]

CreateURL(value) == [Token("URL") EXCEPT !.value = value]

CreateAtKeyword(value) == [Token("AtKeyword") EXCEPT !.value = value]

CreateNumber(number) == [Token("Number") EXCEPT !.flag = number.isInteger, !.num = number.value]

CreatePercentage(number) ==
    [Token("Percentage") EXCEPT !.flag = number.isInteger, !.num = number.value]

CreateDimension(number, unit) ==
    [Token("Dimension") EXCEPT !.value = unit, !.flag = number.isInteger, !.num = number.value]

(***************************************************************************)
(* What a routine that fills the token buffer hands back: its return value *)
(* (ok), the cursor (pos), whether it constructed a Token in the buffer    *)
(* (emitted, tok), and whether it indexed the input at or past its size    *)
(* (oob).                                                                   *)
(***************************************************************************)
NoToken(position, oob) ==
    [ok |-> FALSE, pos |-> position, emitted |-> FALSE,
     tok |-> Token("Uninitialized"), oob |-> oob]

Built(position, tok, oob) ==
    [ok |-> TRUE, pos |-> position, emitted |-> TRUE, tok |-> tok, oob |-> oob]

(***************************************************************************)
(* inputStream[position].  The source indexes the vector without a bounds  *)
(* check in a few places; a read at or past size() yields whatever the     *)
(* memory holds, the arbitrary code point g.                                *)
(***************************************************************************)
At(inputStream, position, g) ==
    IF position < Len(inputStream) THEN inputStream[position + 1] ELSE g

(***************************************************************************)
(* ConsumeComments: the for loop starts at the opening SOLIDUS itself.     *)
(***************************************************************************)
RECURSIVE ConsumeCommentsLoop(_, _, _)
ConsumeCommentsLoop(inputStream, position, isPreviousAsterisk) ==
    IF position >= Len(inputStream)
    THEN [ok |-> FALSE, pos |-> position]
    ELSE IF inputStream[position + 1] = ASTERISK
    THEN ConsumeCommentsLoop(inputStream, position + 1, TRUE)
    ELSE IF inputStream[position + 1] = SOLIDUS /\ isPreviousAsterisk
    THEN [ok |-> TRUE, pos |-> position + 1]
    ELSE ConsumeCommentsLoop(inputStream, position + 1, FALSE)

ConsumeComments(inputStream, position) ==
    IF position + 1 >= Len(inputStream)
    THEN [ok |-> TRUE, pos |-> position]
    ELSE IF inputStream[position + 1] # SOLIDUS \/ inputStream[position + 2] # ASTERISK
    THEN [ok |-> TRUE, pos |-> position]
    ELSE ConsumeCommentsLoop(inputStream, position, FALSE)

(***************************************************************************)
(* ConsumeWhitespace: the position after the run of whitespace.            *)
(***************************************************************************)
\* ConsumeWhitespace as it would be if a comment between two runs of
\* whitespace were skipped as part of the run.
RECURSIVE ConsumeWhitespaceThroughComments(_, _)
ConsumeWhitespaceThroughComments(inputStream, position) ==
    IF position < Len(inputStream) /\ IsWhitespace(inputStream[position + 1])
    THEN ConsumeWhitespaceThroughComments(inputStream, position + 1)
    ELSE IF /\ ConsumeComments(inputStream, position).ok
            /\ ConsumeComments(inputStream, position).pos > position
            /\ ConsumeComments(inputStream, position).pos < Len(inputStream)
            /\ IsWhitespace(inputStream[ConsumeComments(inputStream, position).pos + 1])
    THEN ConsumeWhitespaceThroughComments(inputStream,
                                          ConsumeComments(inputStream, position).pos)
    ELSE position

RECURSIVE ConsumeWhitespace(_, _)
ConsumeWhitespace(inputStream, position) ==
    IF position < Len(inputStream) /\ IsWhitespace(inputStream[position + 1])
    THEN ConsumeWhitespace(inputStream, position + 1)
    ELSE position

HexDigitToNumber(codePoint) ==
    IF IsDigit(codePoint) THEN codePoint - ZERO
    ELSE IF IsLowercaseLetter(codePoint) THEN 10 + codePoint - LATIN_SMALL_LETTER_A
    ELSE 10 + codePoint - LATIN_CAPITAL_LETTER_A

RECURSIVE HexSequenceToCodePoint(_, _, _, _)
HexSequenceToCodePoint(inputStream, start, count, g) ==
    IF count = 0 THEN 0
    ELSE HexSequenceToCodePoint(inputStream, start, count - 1, g) * 16
            + HexDigitToNumber(At(inputStream, start + count - 1, g))

(***************************************************************************)
(* ConsumeEscapedCodePoint.  The hex-digit loop and the whitespace test    *)
(* index the input without a bounds check (oob records such a read).       *)
(***************************************************************************)
RECURSIVE HexDigitsLoop(_, _, _, _)
HexDigitsLoop(inputStream, position, consumed, g) ==
    IF consumed < 5 /\ IsHexDigit(At(inputStream, position, g))
    THEN HexDigitsLoop(inputStream, position + 1, consumed + 1, g)
    ELSE [pos |-> position, consumed |-> consumed,
          oob |-> consumed < 5 /\ position >= Len(inputStream)]

EscapedValue(asNumber) ==
    IF asNumber = ZERO \/ IsSurrogate(asNumber) \/ asNumber > MAXIMUM_ALLOWED_CODE_POINT
    THEN REPLACEMENT
    ELSE asNumber

ConsumeEscapedCodePoint(inputStream, position, g) ==
    IF position = Len(inputStream)
    THEN [ok |-> FALSE, pos |-> position, cp |-> REPLACEMENT, oob |-> FALSE]
    ELSE LET codePoint == At(inputStream, position, g)
         IN  IF IsHexDigit(codePoint)
             THEN LET h == HexDigitsLoop(inputStream, position + 1, 0, g)
                      ws == IsWhitespace(At(inputStream, h.pos, g))
                      asNumber == HexSequenceToCodePoint(inputStream, position, h.consumed + 1, g)
                  IN  [ok |-> TRUE,
                       pos |-> IF ws THEN h.pos + 1 ELSE h.pos,
                       cp |-> EscapedValue(asNumber),
                       oob |-> h.oob \/ h.pos >= Len(inputStream)]
             ELSE [ok |-> TRUE, pos |-> position + 1, cp |-> codePoint, oob |-> FALSE]

(***************************************************************************)
(* ConsumeStringToken.  tok is what the routine constructs in its output   *)
(* buffer, ok is its return value.                                          *)
(***************************************************************************)
RECURSIVE ConsumeStringLoop(_, _, _, _, _, _)
RECURSIVE ConsumeStringEscape(_, _, _, _, _, _)

\* ConsumeStringLoop as it would be if the newline after a REVERSE_SOLIDUS
\* were not consumed: the next iteration meets it as a newline in the string.
RECURSIVE ConsumeStringLoopLeavesNewline(_, _, _, _, _, _)
ConsumeStringLoopLeavesNewline(inputStream, position, g, endingCodePoint, value, oob) ==
    IF position >= Len(inputStream)
    THEN [ok |-> FALSE, pos |-> position, emitted |-> TRUE, tok |-> CreateString(value), oob |-> oob]
    ELSE LET nextCodePoint == inputStream[position + 1]
             p1 == position + 1
         IN  IF nextCodePoint = endingCodePoint
             THEN [ok |-> TRUE, pos |-> p1, emitted |-> TRUE, tok |-> CreateString(value), oob |-> oob]
             ELSE IF IsNewline(nextCodePoint)
             THEN [ok |-> FALSE, pos |-> p1 - 1, emitted |-> TRUE, tok |-> Token("BadString"), oob |-> oob]
             ELSE IF nextCodePoint = REVERSE_SOLIDUS
             THEN IF p1 = Len(inputStream)
                  THEN ConsumeStringLoopLeavesNewline(inputStream, p1, g, endingCodePoint,
                                                      value, oob)
                  ELSE IF IsNewline(At(inputStream, p1, g))
                  THEN ConsumeStringLoopLeavesNewline(inputStream, p1, g, endingCodePoint,
                                                      value, oob)
                  ELSE ConsumeStringEscape(inputStream, g, endingCodePoint, value, oob,
                                           ConsumeEscapedCodePoint(inputStream, p1, g))
             ELSE ConsumeStringLoopLeavesNewline(inputStream, p1, g, endingCodePoint,
                                                 Append(value, nextCodePoint), oob)

ConsumeStringLoop(inputStream, position, g, endingCodePoint, value, oob) ==
    IF position >= Len(inputStream)
    THEN [ok |-> FALSE, pos |-> position, emitted |-> TRUE, tok |-> CreateString(value), oob |-> oob]
    ELSE LET nextCodePoint == inputStream[position + 1]
             p1 == position + 1
         IN  IF nextCodePoint = endingCodePoint
             THEN [ok |-> TRUE, pos |-> p1, emitted |-> TRUE, tok |-> CreateString(value), oob |-> oob]
             ELSE IF IsNewline(nextCodePoint)
             THEN [ok |-> FALSE, pos |-> p1 - 1, emitted |-> TRUE, tok |-> Token("BadString"), oob |-> oob]
             ELSE IF nextCodePoint = REVERSE_SOLIDUS
             THEN IF p1 = Len(inputStream)
                  THEN ConsumeStringLoop(inputStream, p1, g, endingCodePoint, value, oob)
                  ELSE IF IsNewline(At(inputStream, p1, g))
                  THEN ConsumeStringLoop(inputStream, p1 + 1, g, endingCodePoint, value, oob)
                  ELSE ConsumeStringEscape(inputStream, g, endingCodePoint, value, oob,
                                           ConsumeEscapedCodePoint(inputStream, p1, g))
             ELSE ConsumeStringLoop(inputStream, p1, g, endingCodePoint,
                                    Append(value, nextCodePoint), oob)

ConsumeStringEscape(inputStream, g, endingCodePoint, value, oob, e) ==
    IF ~e.ok
    THEN NoToken(e.pos, oob \/ e.oob)
    ELSE ConsumeStringLoop(inputStream, e.pos, g, endingCodePoint,
                           Append(value, e.cp), oob \/ e.oob)

ConsumeStringToken(inputStream, position, g, endingCodePoint) ==
    ConsumeStringLoop(inputStream, position, g, endingCodePoint, <<>>, FALSE)

AreTwoCodePointsValidEscape(inputStream, position) ==
    IF position + 1 >= Len(inputStream) THEN FALSE
    ELSE IF inputStream[position + 1] # REVERSE_SOLIDUS THEN FALSE
    ELSE ~IsNewline(inputStream[position + 2])

DoThreeCodePointsStartIndentSequence(inputStream, position) ==
    IF position + 2 >= Len(inputStream) THEN FALSE
    ELSE LET firstCodePoint == inputStream[position + 1]
         IN  IF firstCodePoint = HYPHEN_MINUS
             THEN \/ IsIdentStart(inputStream[position + 2])
                  \/ inputStream[position + 2] = HYPHEN_MINUS
                  \/ AreTwoCodePointsValidEscape(inputStream, position + 1)
             ELSE IF firstCodePoint = REVERSE_SOLIDUS
             THEN AreTwoCodePointsValidEscape(inputStream, position)
             ELSE IsIdentStart(firstCodePoint)

(***************************************************************************)
(* ConsumeIdentSequence                                                    *)
(***************************************************************************)
RECURSIVE ConsumeIdentLoop(_, _, _, _, _)
RECURSIVE ConsumeIdentEscape(_, _, _, _, _)
ConsumeIdentLoop(inputStream, position, g, resultLocal, oob) ==
    IF position >= Len(inputStream)
    THEN [ok |-> TRUE, pos |-> position, value |-> resultLocal, oob |-> oob]
    ELSE LET nextCodePoint == inputStream[position + 1]
         IN  IF IsIdent(nextCodePoint)
             THEN ConsumeIdentLoop(inputStream, position + 1, g,
                                   Append(resultLocal, nextCodePoint), oob)
             ELSE IF AreTwoCodePointsValidEscape(inputStream, position)
             THEN ConsumeIdentEscape(inputStream, g, resultLocal, oob,
                                     ConsumeEscapedCodePoint(inputStream, position + 1, g))
             ELSE [ok |-> TRUE, pos |-> position, value |-> resultLocal, oob |-> oob]

ConsumeIdentEscape(inputStream, g, resultLocal, oob, e) ==
    IF ~e.ok
    THEN [ok |-> FALSE, pos |-> e.pos, value |-> <<>>, oob |-> oob \/ e.oob]
    ELSE ConsumeIdentLoop(inputStream, e.pos, g, Append(resultLocal, e.cp), oob \/ e.oob)

ConsumeIdentSequence(inputStream, position, g) ==
    ConsumeIdentLoop(inputStream, position, g, <<>>, FALSE)

DoThreeCodePointsStartNumber(inputStream, position) ==
    IF position >= Len(inputStream) THEN FALSE
    ELSE LET firstCodePoint == inputStream[position + 1]
         IN  IF firstCodePoint = PLUS_SIGN \/ firstCodePoint = HYPHEN_MINUS
             THEN IF position + 1 < Len(inputStream) /\ IsDigit(inputStream[position + 2])
                  THEN TRUE
                  ELSE /\ position + 2 < Len(inputStream)
                       /\ inputStream[position + 2] = FULL_STOP
                       /\ IsDigit(inputStream[position + 3])
             ELSE IF firstCodePoint = FULL_STOP
             THEN position + 1 < Len(inputStream) /\ IsDigit(inputStream[position + 2])
             ELSE IsDigit(firstCodePoint)

(***************************************************************************)
(* ConvertStringToNumber.  The lambda InterpretAsBase10Number skips the    *)
(* code point at position, runs over the digits after it and sums them up  *)
(* from the right.                                                          *)
(*                                                                         *)
(* The numeric payload is the record [kind, val, exp]:                     *)
(*   "int64"    the int64_t val * 10^exp;                                   *)
(*   "overflow" the int64_t arithmetic overflowed (exponentPow *= 10 or   *)
(*              resultNum *= exponentPow), the stored value is arbitrary;  *)
(*   "double"   the double val * 10^exp (always integral, see the          *)
(*              pow(10, d) factor);                                         *)
(*   "inf", "-inf", "nan"  the double overflowed: pow(10, t * e) is        *)
(*              computed with t * e in unsigned arithmetic, so that        *)
(*              t = -1 and e > 0 give pow(10, 2^32 - e).                    *)
(* val is kept free of trailing zeros (they go to exp) so that equal       *)
(* payloads are equal records.                                              *)
(***************************************************************************)
RECURSIVE Pow10(_)
Pow10(n) == IF n <= 0 THEN 1 ELSE 10 * Pow10(n - 1)

RECURSIVE NumDigits(_)
NumDigits(n) == IF n < 10 THEN 1 ELSE 1 + NumDigits(n \div 10)

Abs(n) == IF n < 0 THEN -n ELSE n

RECURSIVE Normalised(_, _, _)
Normalised(kind, val, exp) ==
    IF val = 0 THEN [kind |-> kind, val |-> 0, exp |-> 0]
    ELSE IF val % 10 = 0 THEN Normalised(kind, val \div 10, exp + 1)
    ELSE [kind |-> kind, val |-> val, exp |-> exp]

\* The leading digits of |val|, as a number of nine digits.
Leading9(val) == Abs(val) * Pow10(9 - NumDigits(Abs(val)))

\* val * 10^exp lies within the range of int64_t (|val| < 10^9).
FitsInt64(val, exp) ==
    \/ val = 0
    \/ NumDigits(Abs(val)) + exp <= 18
    \/ (NumDigits(Abs(val)) + exp = 19 /\ Leading9(val) <= 922337203)

\* val * 10^exp lies within the range of a finite double (|val| < 10^9).
FitsDouble(val, exp) ==
    \/ val = 0
    \/ NumDigits(Abs(val)) + exp <= 308
    \/ (NumDigits(Abs(val)) + exp = 309 /\ Leading9(val) <= 179769313)

RECURSIVE DigitRunEnd(_, _)
DigitRunEnd(string, position) ==
    IF position < Len(string) /\ IsDigit(string[position + 1])
    THEN DigitRunEnd(string, position + 1)
    ELSE position

\* result and base of InterpretAsBase10Number are unsigned, 32 bits wide: the
\* sum and the product wrap modulo 2^32.  An unsigned value is kept as its
\* two halves of 16 bits, [hi, lo], and read back as an integer where it is
\* assigned to i, f or e.
UnsignedTimes(a, k) ==
    [hi |-> (a.hi * k + (a.lo * k) \div 65536) % 65536, lo |-> (a.lo * k) % 65536]

UnsignedPlus(a, b) ==
    [hi |-> (a.hi + b.hi + (a.lo + b.lo) \div 65536) % 65536, lo |-> (a.lo + b.lo) % 65536]

UnsignedValue(a) == a.hi * 65536 + a.lo

RECURSIVE Base10Sum(_, _, _, _)
Base10Sum(string, start, i, base) ==
    IF i <= start THEN [hi |-> 0, lo |-> 0]
    ELSE UnsignedPlus(UnsignedTimes(base, string[i] - ZERO),
                      Base10Sum(string, start, i - 1, UnsignedTimes(base, 10)))

InterpretAsBase10Number(string, position) ==
    LET end == DigitRunEnd(string, position + 1)
    IN  [pos |-> end, numDigits |-> end - position,
         result |-> UnsignedValue(Base10Sum(string, position, end, [hi |-> 0, lo |-> 1]))]

IntegerValue(s, i, e) ==
    IF e <= 18 /\ FitsInt64(s * i, e)
    THEN Normalised("int64", s * i, e)
    ELSE [kind |-> "overflow", val |-> 0, exp |-> 0]

DoubleValue(s, i, f, d, t, e) ==
    LET mantissa == i + f * Pow10(d)
        infinite == IF mantissa = 0 THEN [kind |-> "nan", val |-> 0, exp |-> 0]
                    ELSE IF s = 1 THEN [kind |-> "inf", val |-> 0, exp |-> 0]
                    ELSE [kind |-> "-inf", val |-> 0, exp |-> 0]
    IN  IF t = -1 /\ e > 0 THEN infinite
        ELSE IF e <= 308 /\ FitsDouble(mantissa, e) THEN Normalised("double", s * mantissa, e)
        ELSE infinite

\* The locals of ConvertStringToNumber, with the cursor, as declared.
NumberLocals ==
    [position |-> 0, s |-> 1, t |-> 1, i |-> 0, f |-> 0, d |-> 0, e |-> 0,
     isInteger |-> TRUE]

\* The steps of ConvertStringToNumber in the order of the source; each takes
\* the locals n as the step before it left them.
ConvertSign(string) ==
    IF string[1] = PLUS_SIGN THEN [NumberLocals EXCEPT !.position = 1]
    ELSE IF string[1] = HYPHEN_MINUS THEN [NumberLocals EXCEPT !.position = 1, !.s = -1]
    ELSE NumberLocals

ConvertIntegerPart(string, n) ==
    IF IsDigit(string[n.position + 1])
    THEN LET r == InterpretAsBase10Number(string, n.position)
         IN  [n EXCEPT !.i = r.result, !.position = r.pos]
    ELSE n

ConvertFullStop(string, n) ==
    IF n.position < Len(string) /\ string[n.position + 1] = FULL_STOP
    THEN [n EXCEPT !.isInteger = FALSE, !.position = n.position + 1]
    ELSE n

ConvertFraction(string, n) ==
    IF n.position < Len(string) /\ IsDigit(string[n.position + 1])
    THEN LET r == InterpretAsBase10Number(string, n.position)
         IN  [n EXCEPT !.f = r.result, !.d = r.numDigits, !.position = r.pos]
    ELSE n

ConvertExponentIndicator(string, n) ==
    IF /\ n.position < Len(string)
       /\ (string[n.position + 1] = LATIN_CAPITAL_LETTER_E
           \/ string[n.position + 1] = LATIN_SMALL_LETTER_E)
    THEN [n EXCEPT !.position = n.position + 1]
    ELSE n

ConvertExponentSign(string, n) ==
    IF n.position >= Len(string) THEN n
    ELSE IF string[n.position + 1] = PLUS_SIGN
    THEN [n EXCEPT !.position = n.position + 1]
    ELSE IF string[n.position + 1] = HYPHEN_MINUS
    THEN [n EXCEPT !.t = -1, !.isInteger = FALSE, !.position = n.position + 1]
    ELSE n

ConvertExponent(string, n) ==
    IF n.position < Len(string) /\ IsDigit(string[n.position + 1])
    THEN LET r == InterpretAsBase10Number(string, n.position)
         IN  [n EXCEPT !.e = r.result, !.d = r.numDigits, !.position = r.pos]
    ELSE n

ConvertedValue(n) ==
    IF n.isInteger
    THEN IntegerValue(n.s, n.i, n.e)
    ELSE DoubleValue(n.s, n.i, n.f, n.d, n.t, n.e)

ConvertStringToNumber(string) ==
    ConvertedValue(
        ConvertExponent(string,
            ConvertExponentSign(string,
                ConvertExponentIndicator(string,
                    ConvertFraction(string,
                        ConvertFullStop(string,
                            ConvertIntegerPart(string, ConvertSign(string))))))))

(***************************************************************************)
(* ConsumeNumber: repr is the run [position, end) of the input.  The steps *)
(* pass on the cursor and the isInteger flag.                               *)
(***************************************************************************)
ConsumeNumberSign(inputStream, position) ==
    [pos |-> IF \/ inputStream[position + 1] = PLUS_SIGN
                \/ inputStream[position + 1] = HYPHEN_MINUS
             THEN position + 1 ELSE position,
     isInteger |-> TRUE]

ConsumeNumberDigits(inputStream, c) ==
    [c EXCEPT !.pos = DigitRunEnd(inputStream, c.pos)]

ConsumeNumberFraction(inputStream, c) ==
    IF /\ c.pos + 1 < Len(inputStream)
       /\ inputStream[c.pos + 1] = FULL_STOP
       /\ IsDigit(inputStream[c.pos + 2])
    THEN [pos |-> DigitRunEnd(inputStream, c.pos + 2), isInteger |-> FALSE]
    ELSE c

ConsumeNumberExponent(inputStream, c) ==
    IF c.pos + 1 >= Len(inputStream) THEN c
    ELSE IF /\ inputStream[c.pos + 1] # LATIN_CAPITAL_LETTER_E
            /\ inputStream[c.pos + 1] # LATIN_SMALL_LETTER_E
    THEN c
    ELSE IF inputStream[c.pos + 2] = PLUS_SIGN \/ inputStream[c.pos + 2] = HYPHEN_MINUS
    THEN IF c.pos + 2 < Len(inputStream) /\ IsDigit(inputStream[c.pos + 3])
         THEN [pos |-> DigitRunEnd(inputStream, c.pos + 3), isInteger |-> FALSE]
         ELSE c
    ELSE IF IsDigit(inputStream[c.pos + 2])
    THEN [pos |-> DigitRunEnd(inputStream, c.pos + 2), isInteger |-> FALSE]
    ELSE c

ConsumeNumberValue(inputStream, position, c) ==
    [ok |-> TRUE, pos |-> c.pos, isInteger |-> c.isInteger,
     value |-> ConvertStringToNumber(SubSeq(inputStream, position + 1, c.pos))]

ConsumeNumber(inputStream, position) ==
    IF position = Len(inputStream)
    THEN [ok |-> FALSE, pos |-> position, isInteger |-> TRUE, value |-> NoNumber]
    ELSE ConsumeNumberValue(inputStream, position,
             ConsumeNumberExponent(inputStream,
                 ConsumeNumberFraction(inputStream,
                     ConsumeNumberDigits(inputStream,
                         ConsumeNumberSign(inputStream, position)))))

(***************************************************************************)
(* ConsumeNumericToken.  The PERCENTAGE_SIGN test indexes the input        *)
(* without a bounds check.                                                  *)
(***************************************************************************)
DimensionWith(number, unit) ==
    IF ~unit.ok
    THEN NoToken(unit.pos, unit.oob)
    ELSE Built(unit.pos, CreateDimension(number, unit.value), unit.oob)

NumericTokenWith(inputStream, g, number) ==
    IF ~number.ok
    THEN NoToken(number.pos, FALSE)
    ELSE IF DoThreeCodePointsStartIndentSequence(inputStream, number.pos)
    THEN DimensionWith(number, ConsumeIdentSequence(inputStream, number.pos, g))
    ELSE IF At(inputStream, number.pos, g) = PERCENTAGE_SIGN
    THEN Built(number.pos + 1, CreatePercentage(number), number.pos >= Len(inputStream))
    ELSE Built(number.pos, CreateNumber(number), number.pos >= Len(inputStream))

ConsumeNumericToken(inputStream, position, g) ==
    NumericTokenWith(inputStream, g, ConsumeNumber(inputStream, position))

(***************************************************************************)
(* ConsumeRemnantsOfBadURL.  The escape is consumed starting at the        *)
(* REVERSE_SOLIDUS itself, and the continue statement still runs the       *)
(* ++position of the for loop.  The loop stops at, not after, the          *)
(* RIGHT_PARENTHESIS.                                                       *)
(***************************************************************************)
RECURSIVE ConsumeRemnantsOfBadURL(_, _, _)
RECURSIVE ConsumeRemnantsEscape(_, _, _)
ConsumeRemnantsOfBadURL(inputStream, position, g) ==
    IF position >= Len(inputStream)
    THEN [ok |-> TRUE, pos |-> position, oob |-> FALSE]
    ELSE IF inputStream[position + 1] = RIGHT_PARENTHESIS
    THEN [ok |-> TRUE, pos |-> position, oob |-> FALSE]
    ELSE IF AreTwoCodePointsValidEscape(inputStream, position)
    THEN ConsumeRemnantsEscape(inputStream, g,
                               ConsumeEscapedCodePoint(inputStream, position, g))
    ELSE ConsumeRemnantsOfBadURL(inputStream, position + 1, g)

WithOob(r, oob) == [r EXCEPT !.oob = r.oob \/ oob]

ConsumeRemnantsEscape(inputStream, g, e) ==
    IF ~e.ok
    THEN [ok |-> FALSE, pos |-> e.pos, oob |-> e.oob]
    ELSE WithOob(ConsumeRemnantsOfBadURL(inputStream, e.pos + 1, g), e.oob)

BadURLWith(r, oob) ==
    IF ~r.ok
    THEN NoToken(r.pos, oob \/ r.oob)
    ELSE Built(r.pos, Token("BadURL"), oob \/ r.oob)

BadURLAfterRemnants(inputStream, position, g, oob) ==
    BadURLWith(ConsumeRemnantsOfBadURL(inputStream, position, g), oob)

(***************************************************************************)
(* ConsumeURL.  Leaving the while loop at end of input returns false       *)
(* without constructing a token.                                            *)
(***************************************************************************)
RECURSIVE ConsumeURLLoop(_, _, _, _, _)
RECURSIVE ConsumeURLEscape(_, _, _, _, _)
RECURSIVE ConsumeURLWhitespace(_, _, _, _, _)
ConsumeURLLoop(inputStream, position, g, value, oob) ==
    IF position >= Len(inputStream)
    THEN [ok |-> FALSE, pos |-> position, emitted |-> FALSE,
          tok |-> Token("Uninitialized"), oob |-> oob]
    ELSE LET next == inputStream[position + 1]
             p1 == position + 1
         IN  IF next = RIGHT_PARENTHESIS
             THEN [ok |-> TRUE, pos |-> p1, emitted |-> TRUE, tok |-> CreateURL(value), oob |-> oob]
             ELSE IF IsWhitespace(next)
             THEN ConsumeURLWhitespace(inputStream, g, value, oob,
                                       ConsumeWhitespace(inputStream, p1))
             ELSE IF \/ next = QUOTATION_MARK
                     \/ next = APOSTROPHE
                     \/ next = LEFT_PARENTHESIS
                     \/ IsNonPrintable(next)
             THEN BadURLAfterRemnants(inputStream, p1, g, oob)
             ELSE IF next = REVERSE_SOLIDUS
             THEN IF AreTwoCodePointsValidEscape(inputStream, p1 - 1)
                  THEN ConsumeURLEscape(inputStream, g, value, oob,
                                        ConsumeEscapedCodePoint(inputStream, p1, g))
                  ELSE BadURLAfterRemnants(inputStream, p1, g, oob)
             ELSE ConsumeURLLoop(inputStream, p1, g, Append(value, next), oob)

ConsumeURLWhitespace(inputStream, g, value, oob, q) ==
    IF q = Len(inputStream)
    THEN NoToken(q, oob)
    ELSE IF inputStream[q + 1] = RIGHT_PARENTHESIS
    THEN Built(q + 1, CreateURL(value), oob)
    ELSE BadURLAfterRemnants(inputStream, q, g, oob)

ConsumeURLEscape(inputStream, g, value, oob, e) ==
    IF ~e.ok
    THEN NoToken(e.pos, oob \/ e.oob)
    ELSE ConsumeURLLoop(inputStream, e.pos, g, Append(value, e.cp), oob \/ e.oob)

\* ConsumeURL as it would be without its first loop, the one that skips the
\* whitespace before the argument.
ConsumeURLWithoutLeadingSkip(inputStream, position, g) ==
    ConsumeURLLoop(inputStream, position, g, <<>>, FALSE)

ConsumeURL(inputStream, position, g) ==
    ConsumeURLLoop(inputStream, ConsumeWhitespace(inputStream, position), g, <<>>, FALSE)

(***************************************************************************)
(* ConsumeIdentLikeToken                                                   *)
(***************************************************************************)
IsURLName(string) ==
    /\ Len(string) = 3
    /\ (string[1] = LATIN_SMALL_LETTER_U \/ string[1] = LATIN_CAPITAL_LETTER_U)
    /\ (string[2] = LATIN_SMALL_LETTER_R \/ string[2] = LATIN_CAPITAL_LETTER_R)
    /\ (string[3] = LATIN_SMALL_LETTER_L \/ string[3] = LATIN_CAPITAL_LETTER_L)

RECURSIVE SkipWhitespacePairs(_, _)
SkipWhitespacePairs(inputStream, position) ==
    IF /\ position + 1 < Len(inputStream)
       /\ IsWhitespace(inputStream[position + 1])
       /\ IsWhitespace(inputStream[position + 2])
    THEN SkipWhitespacePairs(inputStream, position + 1)
    ELSE position

URLStartsWithQuote(inputStream, position) ==
    /\ position + 1 < Len(inputStream)
    /\ LET next == inputStream[position + 1]
           afterNext == inputStream[position + 2]
       IN  \/ (next = QUOTATION_MARK /\ afterNext = APOSTROPHE)
           \/ (IsWhitespace(next) /\ (afterNext = QUOTATION_MARK \/ afterNext = APOSTROPHE))

URLOrFunction(inputStream, g, string, q) ==
    IF URLStartsWithQuote(inputStream, q)
    THEN Built(q, CreateFunction(string.value), string.oob)
    ELSE WithOob(ConsumeURL(inputStream, q, g), string.oob)

\* IdentLikeTokenWith as it would be if the name url alone, without the
\* LEFT_PARENTHESIS after it, started a url.
IdentLikeTokenWithoutParenthesisTest(inputStream, g, string) ==
    IF ~string.ok
    THEN NoToken(string.pos, string.oob)
    ELSE IF IsURLName(string.value)
    THEN URLOrFunction(inputStream, g, string,
                       SkipWhitespacePairs(inputStream, string.pos + 1))
    ELSE IF string.pos < Len(inputStream) /\ inputStream[string.pos + 1] = LEFT_PARENTHESIS
    THEN Built(string.pos, CreateFunction(string.value), string.oob)
    ELSE Built(string.pos, CreateIdent(string.value), string.oob)

IdentLikeTokenWith(inputStream, g, string) ==
    IF ~string.ok
    THEN NoToken(string.pos, string.oob)
    ELSE IF /\ IsURLName(string.value)
            /\ string.pos < Len(inputStream)
            /\ inputStream[string.pos + 1] = LEFT_PARENTHESIS
    THEN URLOrFunction(inputStream, g, string,
                       SkipWhitespacePairs(inputStream, string.pos + 1))
    ELSE IF string.pos < Len(inputStream) /\ inputStream[string.pos + 1] = LEFT_PARENTHESIS
    THEN Built(string.pos, CreateFunction(string.value), string.oob)
    ELSE Built(string.pos, CreateIdent(string.value), string.oob)

ConsumeIdentLikeToken(inputStream, position, g) ==
    IdentLikeTokenWith(inputStream, g, ConsumeIdentSequence(inputStream, position, g))

(***************************************************************************)
(* ConsumeToken.  The result holds the return value (ok), the cursor (pos) *)
(* and whether a Token was constructed in the output buffer (emitted, tok).*)
(***************************************************************************)
Emit(position, tok) ==
    [ok |-> TRUE, pos |-> position, emitted |-> TRUE, tok |-> tok, oob |-> FALSE]

HashWith(ident, isID, outside) ==
    IF ~ident.ok
    THEN NoToken(ident.pos, outside \/ ident.oob)
    ELSE Built(ident.pos, CreateHash(ident.value, isID), outside \/ ident.oob)

\* A variant of the NUMBER_SIGN branch that sets the id flag of every Hash.
ConsumeHashAlwaysID(inputStream, position, g) ==
    IF \/ IsIdent(At(inputStream, position, g))
       \/ AreTwoCodePointsValidEscape(inputStream, position)
    THEN HashWith(ConsumeIdentSequence(inputStream, position, g),
                  TRUE,
                  position >= Len(inputStream))
    ELSE Built(position, CreateDelim(NUMBER_SIGN), position >= Len(inputStream))

ConsumeHash(inputStream, position, g) ==
    IF \/ IsIdent(At(inputStream, position, g))
       \/ AreTwoCodePointsValidEscape(inputStream, position)
    THEN HashWith(ConsumeIdentSequence(inputStream, position, g),
                  DoThreeCodePointsStartIndentSequence(inputStream, position),
                  position >= Len(inputStream))
    ELSE Built(position, CreateDelim(NUMBER_SIGN), position >= Len(inputStream))

AtKeywordWith(ident) ==
    IF ~ident.ok
    THEN NoToken(ident.pos, ident.oob)
    ELSE Built(ident.pos, CreateAtKeyword(ident.value), ident.oob)

\* A variant of the COMMERCIAL_AT branch that looks ahead from the code
\* point after the @ and still steps the cursor back before consuming.
ConsumeAtStepsBack(inputStream, position, g) ==
    IF DoThreeCodePointsStartIndentSequence(inputStream, position)
    THEN AtKeywordWith(ConsumeIdentSequence(inputStream, position - 1, g))
    ELSE Emit(position, CreateDelim(COMMERCIAL_AT))

ConsumeAt(inputStream, position, g) ==
    IF DoThreeCodePointsStartIndentSequence(inputStream, position - 1)
    THEN AtKeywordWith(ConsumeIdentSequence(inputStream, position - 1, g))
    ELSE Emit(position, CreateDelim(COMMERCIAL_AT))

ConsumeHyphenMinus(inputStream, position, g) ==
    IF DoThreeCodePointsStartNumber(inputStream, position - 1)
    THEN ConsumeNumericToken(inputStream, position - 1, g)
    ELSE IF /\ position + 1 < Len(inputStream)
            /\ inputStream[position + 1] = HYPHEN_MINUS
            /\ inputStream[position + 2] = GREATER_THAN_SIGN
    THEN Emit(position + 2, Token("CDC"))
    ELSE IF DoThreeCodePointsStartIndentSequence(inputStream, position - 1)
    THEN ConsumeIdentLikeToken(inputStream, position - 1, g)
    ELSE Emit(position, CreateDelim(HYPHEN_MINUS))

\* ConsumeLessThan as it would be if the Delim branch reconsumed twice: the
\* cursor ends before the LESS_THAN_SIGN and on the code point before it.
ConsumeLessThanReconsumesTwice(inputStream, position) ==
    IF /\ position + 2 < Len(inputStream)
       /\ inputStream[position + 1] = EXCLAMATION_MARK
       /\ inputStream[position + 2] = HYPHEN_MINUS
       /\ inputStream[position + 3] = HYPHEN_MINUS
    THEN Emit(position + 3, Token("CDO"))
    ELSE Emit(IF position >= 2 THEN position - 2 ELSE position, CreateDelim(LESS_THAN_SIGN))

ConsumeLessThan(inputStream, position) ==
    IF /\ position + 2 < Len(inputStream)
       /\ inputStream[position + 1] = EXCLAMATION_MARK
       /\ inputStream[position + 2] = HYPHEN_MINUS
       /\ inputStream[position + 3] = HYPHEN_MINUS
    THEN Emit(position + 3, Token("CDO"))
    ELSE Emit(position, CreateDelim(LESS_THAN_SIGN))

DispatchToken(inputStream, position, g, nextCodePoint) ==
    IF IsWhitespace(nextCodePoint)
    THEN Emit(ConsumeWhitespace(inputStream, position), Token("Whitespace"))
    ELSE IF nextCodePoint = QUOTATION_MARK
    THEN ConsumeStringToken(inputStream, position, g, nextCodePoint)
    ELSE IF nextCodePoint = NUMBER_SIGN
    THEN ConsumeHash(inputStream, position, g)
    ELSE IF nextCodePoint = APOSTROPHE
    THEN ConsumeStringToken(inputStream, position, g, nextCodePoint)
    ELSE IF nextCodePoint = LEFT_PARENTHESIS
    THEN Emit(position, Token("LeftParenthesis"))
    ELSE IF nextCodePoint = RIGHT_PARENTHESIS
    THEN Emit(position, Token("RightParenthesis"))
    ELSE IF nextCodePoint = PLUS_SIGN
    THEN IF DoThreeCodePointsStartNumber(inputStream, position - 1)
         THEN ConsumeNumericToken(inputStream, position - 1, g)
         ELSE Emit(position, CreateDelim(nextCodePoint))
    ELSE IF nextCodePoint = COMMA
    THEN Emit(position, Token("Comma"))
    ELSE IF nextCodePoint = HYPHEN_MINUS
    THEN ConsumeHyphenMinus(inputStream, position, g)
    ELSE IF nextCodePoint = FULL_STOP
    THEN IF DoThreeCodePointsStartNumber(inputStream, position - 1)
         THEN ConsumeNumericToken(inputStream, position - 1, g)
         ELSE Emit(position, CreateDelim(nextCodePoint))
    ELSE IF nextCodePoint = COLON
    THEN Emit(position, Token("Colon"))
    ELSE IF nextCodePoint = SEMI_COLON
    THEN Emit(position, Token("SemiColon"))
    ELSE IF nextCodePoint = LESS_THAN_SIGN
    THEN ConsumeLessThan(inputStream, position)
    ELSE IF nextCodePoint = COMMERCIAL_AT
    THEN ConsumeAt(inputStream, position, g)
    ELSE IF nextCodePoint = LEFT_SQUARE_BRACKET
    THEN Emit(position, Token("LeftSquareBracket"))
    ELSE IF nextCodePoint = LEFT_CURLY_BRACKET
    THEN Emit(position, Token("LeftCurlyBracket"))
    ELSE IF nextCodePoint = RIGHT_CURLY_BRACKET
    THEN Emit(position, Token("RightCurlyBracket"))
    ELSE IF IsDigit(nextCodePoint)
    THEN ConsumeNumericToken(inputStream, position - 1, g)
    ELSE IF IsIdentStart(nextCodePoint)
    THEN ConsumeIdentLikeToken(inputStream, position - 1, g)
    ELSE Emit(position, CreateDelim(nextCodePoint))

ConsumeTokenAfterComments(inputStream, g, c) ==
    IF ~c.ok
    THEN NoToken(c.pos, FALSE)
    ELSE IF c.pos = Len(inputStream)
    THEN [ok |-> TRUE, pos |-> c.pos, emitted |-> FALSE,
          tok |-> Token("Uninitialized"), oob |-> FALSE]
    ELSE DispatchToken(inputStream, c.pos + 1, g, inputStream[c.pos + 1])

ConsumeToken(inputStream, position, g) ==
    ConsumeTokenAfterComments(inputStream, g, ConsumeComments(inputStream, position))

(***************************************************************************)
(* What an unchecked read past the end of the input can yield, and what    *)
(* the token buffer can hold when ConsumeToken returns true without        *)
(* constructing a Token in it.                                              *)
(***************************************************************************)
Garbage == {NULL_CODE_POINT, SPACE, PERCENTAGE_SIGN, LATIN_SMALL_LETTER_A}

GarbageTokens == {Token("Uninitialized"), Token("Whitespace")}

\* The values an unchecked read of this ConsumeToken call can yield: the
\* call reads past the end with one garbage value iff it does with any.
GarbageRead(stream, pos) ==
    IF ConsumeToken(stream, pos, NULL_CODE_POINT).oob THEN Garbage ELSE {NULL_CODE_POINT}

\* What pushing the token buffer after the call r gives: the Token built by
\* the call, or, when none was built and the call returned true, some token
\* or a crash of the move ("Crash").
GarbageBuilt(r) ==
    IF r.emitted THEN {r.tok}
    ELSE IF r.ok THEN GarbageTokens \cup {Token("Crash")}
    ELSE {Token("Uninitialized")}

(***************************************************************************)
(* TokenizeCodePoints as a function of the whole input: the tokens pushed  *)
(* to output, each with the cursor before and after its ConsumeToken call. *)
(***************************************************************************)
RECURSIVE TokenizeLoop(_, _, _, _, _)
RECURSIVE TokenizePush(_, _, _, _, _, _)
TokenizeLoop(stream, pos, g, u, out) ==
    IF pos >= Len(stream)
    THEN [ok |-> TRUE, tokens |-> out]
    ELSE TokenizePush(stream, pos, g, u, out, ConsumeToken(stream, pos, g))

TokenizePush(stream, pos, g, u, out, r) ==
    IF ~r.ok
    THEN [ok |-> FALSE, tokens |-> out]
    ELSE TokenizeLoop(stream, r.pos, g, u,
             Append(out, [tok |-> IF r.emitted THEN r.tok ELSE u,
                          from |-> pos, to |-> r.pos]))

TokenizeCodePoints(stream, g, u) == TokenizeLoop(stream, 0, g, u, <<>>)

(***************************************************************************)
(* BOMSniff.  The three bytes are copied into an array of plain char and   *)
(* compared with the int constants 0xEF, 0xBB, ...; whether plain char is  *)
(* signed is a property of the build (charIsSigned).                        *)
(***************************************************************************)
CharValue(byte, charIsSigned) ==
    IF charIsSigned /\ byte >= 128 THEN byte - 256 ELSE byte

BOMSniff(ioQueue, position, charIsSigned) ==
    IF position + 3 > Len(ioQueue)
    THEN "Count"
    ELSE LET BOM == [k \in 0..2 |-> CharValue(ioQueue[position + k + 1], charIsSigned)]
         IN  IF BOM[0] = 239
             THEN IF BOM[1] = 187 /\ BOM[2] = 191 THEN "UTF8" ELSE "Count"
             ELSE IF BOM[0] = 254
             THEN IF BOM[1] = 255 THEN "UTF16BE" ELSE "Count"
             ELSE IF BOM[0] = 255
             THEN IF BOM[1] = 254 THEN "UTF16LE" ELSE "Count"
             ELSE "Count"

(***************************************************************************)
(* PushCodePoint, with the input preprocessing.  asserted records a        *)
(* violation of the assertion that the code point is not a surrogate.      *)
(***************************************************************************)
\* A variant of PushCodePoint without the push of its last statement.
PushCodePointWithoutLastPush(codePoint, isPreviousCarriageReturn, out) ==
    LET asserted == IsSurrogate(codePoint)
    IN  IF codePoint = FORM_FEED
        THEN [out |-> Append(out, LINE_FEED), cr |-> FALSE, asserted |-> asserted]
        ELSE IF codePoint = CARRIAGE_RETURN
        THEN [out |-> Append(out, LINE_FEED), cr |-> TRUE, asserted |-> asserted]
        ELSE IF codePoint = LINE_FEED
        THEN [out |-> IF ~isPreviousCarriageReturn THEN Append(out, LINE_FEED) ELSE out,
              cr |-> FALSE, asserted |-> asserted]
        ELSE IF codePoint = NULL_CODE_POINT
        THEN [out |-> Append(out, REPLACEMENT), cr |-> FALSE, asserted |-> asserted]
        ELSE [out |-> out, cr |-> isPreviousCarriageReturn, asserted |-> asserted]

PushCodePoint(codePoint, isPreviousCarriageReturn, out) ==
    LET asserted == IsSurrogate(codePoint)
    IN  IF codePoint = FORM_FEED
        THEN [out |-> Append(out, LINE_FEED), cr |-> FALSE, asserted |-> asserted]
        ELSE IF codePoint = CARRIAGE_RETURN
        THEN [out |-> Append(out, LINE_FEED), cr |-> TRUE, asserted |-> asserted]
        ELSE IF codePoint = LINE_FEED
        THEN [out |-> IF ~isPreviousCarriageReturn THEN Append(out, LINE_FEED) ELSE out,
              cr |-> FALSE, asserted |-> asserted]
        ELSE IF codePoint = NULL_CODE_POINT
        THEN [out |-> Append(out, REPLACEMENT), cr |-> FALSE, asserted |-> asserted]
        ELSE [out |-> Append(out, codePoint), cr |-> isPreviousCarriageReturn,
              asserted |-> asserted]

(***************************************************************************)
(* The first byte of a sequence in UTF8Decode: how many bytes follow, the  *)
(* bits it contributes and the window of the next byte.                     *)
(***************************************************************************)
LeadBytesNeeded(byte) ==
    IF byte >= 194 /\ byte <= 223 THEN 1
    ELSE IF byte >= 224 /\ byte <= 239 THEN 2
    ELSE IF byte >= 240 /\ byte <= 244 THEN 3
    ELSE 0

LeadBits(byte) ==
    IF byte >= 194 /\ byte <= 223 THEN byte % 32
    ELSE IF byte >= 224 /\ byte <= 239 THEN byte % 16
    ELSE byte % 8

\* A variant of the lower boundary that does not close the window of the
\* overlong forms after the lead byte E0.
LeadLowerBoundaryOpenOverlong(byte, lowerBoundary) ==
    IF byte = 240 THEN 144
    ELSE lowerBoundary

LeadLowerBoundary(byte, lowerBoundary) ==
    IF byte = 224 THEN 160
    ELSE IF byte = 240 THEN 144
    ELSE lowerBoundary

\* A variant of the upper boundary that does not close the surrogate window
\* after the lead byte ED.
LeadUpperBoundaryOpenSurrogates(byte, upperBoundary) ==
    IF byte = 244 THEN 143
    ELSE upperBoundary

LeadUpperBoundary(byte, upperBoundary) ==
    IF byte = 237 THEN 159
    ELSE IF byte = 244 THEN 143
    ELSE upperBoundary

(***************************************************************************)
(* UTF8Decode as a function of the input and the position it starts at:    *)
(* the locals as declared, one operator per branch of the loop body, and   *)
(* the loop.  The result holds the output and the position reached.        *)
(***************************************************************************)
DecoderLocals(inputPosition) ==
    [inputPosition |-> inputPosition, codePoint |-> 0, bytesSeen |-> 0, bytesNeeded |-> 0,
     lowerBoundary |-> 128, upperBoundary |-> 191, isPreviousCarriageReturn |-> FALSE,
     output |-> <<>>]

Pushed(l, pushed) ==
    [l EXCEPT !.output = pushed.out, !.isPreviousCarriageReturn = pushed.cr]

\* The return at a 0x00 byte and the statement after the loop: a pending
\* sequence gives U+FFFD.  A variant that drops the pending sequence.
DecodePendingDropped(l) == l

DecodePending(l) ==
    IF l.bytesNeeded # 0
    THEN Pushed(l, PushCodePoint(REPLACEMENT, l.isPreviousCarriageReturn, l.output))
    ELSE l

DecodeFirstByte(byte, l) ==
    IF LeadBytesNeeded(byte) # 0
    THEN [l EXCEPT !.bytesNeeded = LeadBytesNeeded(byte),
                   !.codePoint = LeadBits(byte),
                   !.lowerBoundary = LeadLowerBoundary(byte, l.lowerBoundary),
                   !.upperBoundary = LeadUpperBoundary(byte, l.upperBoundary),
                   !.inputPosition = l.inputPosition + 1]
    ELSE [Pushed(l, PushCodePoint(IF byte <= 127 THEN byte ELSE REPLACEMENT,
                                  l.isPreviousCarriageReturn, l.output))
            EXCEPT !.inputPosition = l.inputPosition + 1]

DecodeOutsideWindow(l) ==
    [Pushed(l, PushCodePoint(REPLACEMENT, l.isPreviousCarriageReturn, l.output))
        EXCEPT !.codePoint = 0, !.bytesNeeded = 0, !.bytesSeen = 0,
               !.lowerBoundary = 128, !.upperBoundary = 191]

DecodeContinuation(byte, l) ==
    IF l.bytesSeen + 1 # l.bytesNeeded
    THEN [l EXCEPT !.lowerBoundary = 128, !.upperBoundary = 191,
                   !.codePoint = l.codePoint * 64 + (byte % 64),
                   !.inputPosition = l.inputPosition + 1,
                   !.bytesSeen = l.bytesSeen + 1]
    ELSE [Pushed(l, PushCodePoint(l.codePoint * 64 + (byte % 64),
                                  l.isPreviousCarriageReturn, l.output))
            EXCEPT !.lowerBoundary = 128, !.upperBoundary = 191,
                   !.codePoint = 0, !.bytesNeeded = 0, !.bytesSeen = 0,
                   !.inputPosition = l.inputPosition + 1]

DecodeByte(byte, l) ==
    IF l.bytesNeeded = 0 THEN DecodeFirstByte(byte, l)
    ELSE IF byte < l.lowerBoundary \/ byte > l.upperBoundary THEN DecodeOutsideWindow(l)
    ELSE DecodeContinuation(byte, l)

RECURSIVE UTF8DecodeLoop(_, _)
UTF8DecodeLoop(input, l) ==
    IF l.inputPosition >= Len(input) THEN DecodePending(l)
    ELSE IF input[l.inputPosition + 1] = 0 THEN DecodePending(l)
    ELSE UTF8DecodeLoop(input, DecodeByte(input[l.inputPosition + 1], l))

UTF8Decode(input, inputPosition) == UTF8DecodeLoop(input, DecoderLocals(inputPosition))

(***************************************************************************)
(* State.                                                                  *)
(* Tokenizer: the input, the cursor, the caller's output vector, the token *)
(* buffer of the current loop iteration, and where the call stands         *)
(* (tstate).  spans and oobRead are history variables: the cursor before   *)
(* and after each pushed token, and whether the input was indexed at or    *)
(* past its size.                                                           *)
(* Decoder: the byte buffer, the signedness of plain char in the build,    *)
(* the locals of UTF8Decode, the output vector, and where the call stands  *)
(* (dstate).  asserted is a history variable: PushCodePoint received a     *)
(* surrogate.                                                               *)
(***************************************************************************)
VARIABLES inputStream, position, output, token, tstate, spans, oobRead,
          text, charIsSigned, inputPosition, codePoint, bytesSeen, bytesNeeded,
          lowerBoundary, upperBoundary, isPreviousCarriageReturn, decoded, dstate, asserted,
          pstate

tvars == <<inputStream, position, output, token, tstate, spans, oobRead>>

dvars == <<text, charIsSigned, inputPosition, codePoint, bytesSeen, bytesNeeded,
           lowerBoundary, upperBoundary, isPreviousCarriageReturn, decoded, dstate, asserted,
           pstate>>

vars == <<tvars, dvars>>

SeqsUpTo(S, n) == UNION {[1..k -> S] : k \in 0..n}

PrefixedBy(prefix, tails) == {prefix \o tail : tail \in tails}

InitTokenizer(inputs) ==
    /\ inputStream \in inputs
    /\ position = 0
    /\ output = <<>>
    /\ token = Token("Uninitialized")
    /\ tstate = "running"
    /\ spans = <<>>
    /\ oobRead = FALSE

InitDecoder(inputs, builds) ==
    /\ text \in inputs
    /\ charIsSigned \in builds
    /\ inputPosition = 0
    /\ codePoint = 0
    /\ bytesSeen = 0
    /\ bytesNeeded = 0
    /\ lowerBoundary = 128
    /\ upperBoundary = 191
    /\ isPreviousCarriageReturn = FALSE
    /\ decoded = <<>>
    /\ dstate = "start"
    /\ asserted = FALSE
    /\ pstate = "called"

(***************************************************************************)
(* One iteration of the while loop of TokenizeCodePoints.  Pushing the     *)
(* token buffer when ConsumeToken has not constructed a Token in it moves  *)
(* from an indeterminate object: the push yields some token or the call    *)
(* crashes.                                                                 *)
(***************************************************************************)
PushToken(r, u) ==
    /\ position' = r.pos
    /\ token' = u
    /\ oobRead' = (oobRead \/ r.oob)
    /\ tstate' = IF ~r.ok THEN "failed"
                 ELSE IF u.type = "Crash" THEN "crashed" ELSE "running"
    /\ output' = IF r.ok /\ u.type # "Crash" THEN Append(output, u) ELSE output
    /\ spans' = IF r.ok /\ u.type # "Crash"
                THEN Append(spans, <<position, r.pos>>) ELSE spans

TokenizeStep ==
    /\ tstate = "running"
    /\ position < Len(inputStream)
    /\ \E g \in GarbageRead(inputStream, position) :
         \E u \in GarbageBuilt(ConsumeToken(inputStream, position, g)) :
             PushToken(ConsumeToken(inputStream, position, g), u)
    /\ UNCHANGED inputStream
    /\ UNCHANGED dvars

(***************************************************************************)
(* The loop condition fails: TokenizeCodePoints returns true.              *)
(***************************************************************************)
TokenizeReturn ==
    /\ tstate = "running"
    /\ position >= Len(inputStream)
    /\ tstate' = "ok"
    /\ UNCHANGED <<inputStream, position, output, token, spans, oobRead>>
    /\ UNCHANGED dvars

(***************************************************************************)
(* CreateCodePointsStream up to the call of UTF8Decode.                    *)
(***************************************************************************)
CreateCodePointsStream ==
    /\ dstate = "start"
    /\ LET BOMEncoding == BOMSniff(text, 0, charIsSigned)
       IN  IF BOMEncoding # "Count" /\ BOMEncoding # "UTF8"
           THEN /\ dstate' = "failed"
                /\ UNCHANGED <<inputPosition, decoded>>
           ELSE /\ inputPosition' = IF BOMEncoding = "UTF8" THEN 3 ELSE 0
                /\ decoded' = <<>>
                /\ dstate' = "decoding"
    /\ UNCHANGED <<text, charIsSigned, codePoint, bytesSeen, bytesNeeded, lowerBoundary,
                   upperBoundary, isPreviousCarriageReturn, asserted, pstate>>
    /\ UNCHANGED tvars

(***************************************************************************)
(* One iteration of the while loop of UTF8Decode.                          *)
(***************************************************************************)
UTF8DecodeByte ==
    /\ dstate = "decoding"
    /\ inputPosition < Len(text)
    /\ LET byte == text[inputPosition + 1]
           replaced == PushCodePoint(REPLACEMENT, isPreviousCarriageReturn, decoded)
       IN  IF byte = 0
           THEN /\ decoded' = IF bytesNeeded # 0 THEN replaced.out ELSE decoded
                /\ isPreviousCarriageReturn' =
                       IF bytesNeeded # 0 THEN replaced.cr ELSE isPreviousCarriageReturn
                /\ dstate' = "ok"
                /\ UNCHANGED <<inputPosition, codePoint, bytesSeen, bytesNeeded,
                               lowerBoundary, upperBoundary, asserted>>
           ELSE IF bytesNeeded = 0
           THEN LET ascii == PushCodePoint(byte, isPreviousCarriageReturn, decoded)
                    lead == LeadBytesNeeded(byte) # 0
                    pushed == IF byte <= 127 THEN ascii ELSE replaced
                IN  /\ bytesNeeded' = LeadBytesNeeded(byte)
                    /\ codePoint' = IF lead THEN LeadBits(byte) ELSE codePoint
                    /\ lowerBoundary' = LeadLowerBoundary(byte, lowerBoundary)
                    /\ upperBoundary' = LeadUpperBoundary(byte, upperBoundary)
                    /\ decoded' = IF lead THEN decoded ELSE pushed.out
                    /\ isPreviousCarriageReturn' =
                           IF lead THEN isPreviousCarriageReturn ELSE pushed.cr
                    /\ asserted' = (asserted \/ (~lead /\ pushed.asserted))
                    /\ inputPosition' = inputPosition + 1
                    /\ UNCHANGED <<bytesSeen, dstate>>
           ELSE IF byte < lowerBoundary \/ byte > upperBoundary
           THEN /\ codePoint' = 0
                /\ bytesNeeded' = 0
                /\ bytesSeen' = 0
                /\ lowerBoundary' = 128
                /\ upperBoundary' = 191
                /\ decoded' = replaced.out
                /\ isPreviousCarriageReturn' = replaced.cr
                /\ UNCHANGED <<inputPosition, dstate, asserted>>
           ELSE LET shifted == codePoint * 64 + (byte % 64)
                    complete == bytesSeen + 1 = bytesNeeded
                    pushed == PushCodePoint(shifted, isPreviousCarriageReturn, decoded)
                IN  /\ lowerBoundary' = 128
                    /\ upperBoundary' = 191
                    /\ inputPosition' = inputPosition + 1
                    /\ codePoint' = IF complete THEN 0 ELSE shifted
                    /\ bytesSeen' = IF complete THEN 0 ELSE bytesSeen + 1
                    /\ bytesNeeded' = IF complete THEN 0 ELSE bytesNeeded
                    /\ decoded' = IF complete THEN pushed.out ELSE decoded
                    /\ isPreviousCarriageReturn' =
                           IF complete THEN pushed.cr ELSE isPreviousCarriageReturn
                    /\ asserted' = (asserted \/ (complete /\ pushed.asserted))
                    /\ UNCHANGED dstate
    /\ UNCHANGED <<text, charIsSigned, pstate>>
    /\ UNCHANGED tvars

(***************************************************************************)
(* The end of input in UTF8Decode; CreateCodePointsStream returns true.    *)
(***************************************************************************)
UTF8DecodeEnd ==
    /\ dstate = "decoding"
    /\ inputPosition >= Len(text)
    /\ LET replaced == PushCodePoint(REPLACEMENT, isPreviousCarriageReturn, decoded)
       IN  /\ decoded' = IF bytesNeeded # 0 THEN replaced.out ELSE decoded
           /\ isPreviousCarriageReturn' =
                  IF bytesNeeded # 0 THEN replaced.cr ELSE isPreviousCarriageReturn
    /\ dstate' = "ok"
    /\ UNCHANGED <<text, charIsSigned, inputPosition, codePoint, bytesSeen, bytesNeeded,
                   lowerBoundary, upperBoundary, asserted, pstate>>
    /\ UNCHANGED tvars

(***************************************************************************)
(* Parse after its call of CreateCodePointsStream has returned: false when *)
(* the call returned false, true otherwise.  This is the whole of Parse:   *)
(* the code points are dropped when it returns.                            *)
(***************************************************************************)
Parse ==
    /\ pstate = "called"
    /\ dstate \in {"ok", "failed"}
    /\ pstate' = IF dstate = "failed" THEN "failed" ELSE "ok"
    /\ UNCHANGED <<text, charIsSigned, inputPosition, codePoint, bytesSeen, bytesNeeded,
                   lowerBoundary, upperBoundary, isPreviousCarriageReturn, decoded, dstate,
                   asserted>>
    /\ UNCHANGED tvars

(***************************************************************************)
(* Inputs of the tokenizer: short sequences over the code points the       *)
(* dispatch of ConsumeToken tells apart, and families of longer inputs     *)
(* over the code points of one construct each.                              *)
(***************************************************************************)
MaxLen == 3

MaxStringLen == 4

MaxCommentLen == 6

MaxEscapeLen == 5

MaxURLTail == 3

MaxUnitLen == 4

MaxPunctuationLen == 2

MaxMarkupLen == 5

Alphabet ==
    {LINE_FEED, SPACE, EXCLAMATION_MARK, PLUS_SIGN, HYPHEN_MINUS, FULL_STOP, ZERO + 1,
     LESS_THAN_SIGN, GREATER_THAN_SIGN, REVERSE_SOLIDUS, LATIN_SMALL_LETTER_A,
     LATIN_SMALL_LETTER_E}

StringAlphabet ==
    {LINE_FEED, SPACE, QUOTATION_MARK, APOSTROPHE, REVERSE_SOLIDUS, LATIN_SMALL_LETTER_A}

CommentAlphabet == {SPACE, SOLIDUS, ASTERISK, LATIN_SMALL_LETTER_A}

EscapeAlphabet ==
    {SPACE, ZERO + 1, ZERO + 4, LATIN_CAPITAL_LETTER_A + 1, REVERSE_SOLIDUS}

URLAlphabet ==
    {LINE_FEED, SPACE, QUOTATION_MARK, APOSTROPHE, LEFT_PARENTHESIS, RIGHT_PARENTHESIS,
     REVERSE_SOLIDUS, LATIN_SMALL_LETTER_A, DELETE}

UnitAlphabet ==
    {SPACE, NUMBER_SIGN, PERCENTAGE_SIGN, HYPHEN_MINUS, ZERO + 1, COMMERCIAL_AT,
     LATIN_SMALL_LETTER_A}

MarkupAlphabet ==
    {EXCLAMATION_MARK, HYPHEN_MINUS, LESS_THAN_SIGN, GREATER_THAN_SIGN, LATIN_SMALL_LETTER_A}

PunctuationAlphabet ==
    {LEFT_PARENTHESIS, RIGHT_PARENTHESIS, LEFT_SQUARE_BRACKET, RIGHT_SQUARE_BRACKET,
     LEFT_CURLY_BRACKET, RIGHT_CURLY_BRACKET, COMMA, COLON, SEMI_COLON, LATIN_SMALL_LETTER_A}

URLPrefix ==
    <<LATIN_SMALL_LETTER_U, LATIN_SMALL_LETTER_R, LATIN_SMALL_LETTER_L, LEFT_PARENTHESIS>>

\* The documented examples that are longer than the families reach.
CommentExample ==
    <<SPACE, SPACE, SOLIDUS, ASTERISK, SPACE, LATIN_SMALL_LETTER_A + 2, SPACE, ASTERISK,
      SOLIDUS, SPACE, SPACE, ZERO + 4, ZERO + 2, LATIN_SMALL_LETTER_A + 15,
      LATIN_SMALL_LETTER_A + 23, SPACE, SPACE>>

MarkupExample ==
    <<LESS_THAN_SIGN, EXCLAMATION_MARK, HYPHEN_MINUS, HYPHEN_MINUS,
      LATIN_SMALL_LETTER_A + 23, HYPHEN_MINUS, HYPHEN_MINUS, GREATER_THAN_SIGN>>

\* "4294967296", the digits of 2^32.
IntegerExample ==
    <<ZERO + 4, ZERO + 2, ZERO + 9, ZERO + 4, ZERO + 9, ZERO + 6, ZERO + 7, ZERO + 2,
      ZERO + 9, ZERO + 6>>

\* "url( http://x )".
URLExample ==
    URLPrefix \o
    <<SPACE, LATIN_SMALL_LETTER_A + 7, LATIN_SMALL_LETTER_A + 19, LATIN_SMALL_LETTER_A + 19,
      LATIN_SMALL_LETTER_A + 15, COLON, SOLIDUS, SOLIDUS, LATIN_SMALL_LETTER_A + 23, SPACE,
      RIGHT_PARENTHESIS>>

\* The string "a\<LF>b": a, REVERSE_SOLIDUS, LINE_FEED, b between quotation
\* marks.
ContinuedStringExample ==
    <<QUOTATION_MARK, LATIN_SMALL_LETTER_A, REVERSE_SOLIDUS, LINE_FEED,
      LATIN_SMALL_LETTER_A + 1, QUOTATION_MARK>>

\* "url a 1": the name url with whitespace after it.
PlainExample ==
    <<LATIN_SMALL_LETTER_U, LATIN_SMALL_LETTER_R, LATIN_SMALL_LETTER_L, SPACE,
      LATIN_SMALL_LETTER_A, SPACE, ZERO + 1>>

\* The two adjacent comments of "/*a*//*b*/x".
CommentsExample ==
    <<SOLIDUS, ASTERISK, LATIN_SMALL_LETTER_A, ASTERISK, SOLIDUS, SOLIDUS, ASTERISK,
      LATIN_SMALL_LETTER_A + 1, ASTERISK, SOLIDUS, LATIN_SMALL_LETTER_A + 23>>

\* "a\30 ": the escape of hex value 30 after an ident-start code point.
HexEscapeExample ==
    <<LATIN_SMALL_LETTER_A, REVERSE_SOLIDUS, ZERO + 3, ZERO, SPACE>>

\* "a\0 b": the escape of hex value 0 inside an ident sequence.
ZeroEscapeExample ==
    <<LATIN_SMALL_LETTER_A, REVERSE_SOLIDUS, ZERO, SPACE, LATIN_SMALL_LETTER_A + 1>>

\* "3.14e-2em": a number with a fraction and a negative exponent, and a unit.
FractionExample ==
    <<ZERO + 3, FULL_STOP, ZERO + 1, ZERO + 4, LATIN_SMALL_LETTER_E, HYPHEN_MINUS, ZERO + 2,
      LATIN_SMALL_LETTER_E, LATIN_SMALL_LETTER_A + 12>>

\* The malformed url of "url(a"b)": a quotation mark inside an unquoted url.
BadURLExample ==
    URLPrefix \o
    <<LATIN_SMALL_LETTER_A, QUOTATION_MARK, LATIN_SMALL_LETTER_A + 1, RIGHT_PARENTHESIS>>

ExampleInputs ==
    {CommentExample, MarkupExample, IntegerExample, URLExample, ContinuedStringExample,
     PlainExample, CommentsExample, HexEscapeExample, ZeroEscapeExample, FractionExample,
     BadURLExample}

TokenizerInputs ==
    SeqsUpTo(Alphabet, MaxLen)
        \cup SeqsUpTo(StringAlphabet, MaxStringLen)
        \cup SeqsUpTo(CommentAlphabet, MaxCommentLen)
        \cup SeqsUpTo(EscapeAlphabet, MaxEscapeLen)
        \cup PrefixedBy(URLPrefix, SeqsUpTo(URLAlphabet, MaxURLTail))
        \cup SeqsUpTo(UnitAlphabet, MaxUnitLen)
        \cup SeqsUpTo(PunctuationAlphabet, MaxPunctuationLen)
        \cup SeqsUpTo(MarkupAlphabet, MaxMarkupLen)
        \cup ExampleInputs

(***************************************************************************)
(* Inputs of the decoder: byte buffers over the bytes the decoder tells    *)
(* apart.                                                                   *)
(***************************************************************************)
MaxBytes == 3

ByteAlphabet ==
    {0, 10, 12, 13, 65, 128, 144, 160, 187, 191, 194, 224, 237, 239, 244, 254, 255}

\* The documented examples outside of ByteAlphabet: the two bytes of "/*" and
\* the UTF-8 byte order mark followed by "a".
DecoderExamples == {<<SOLIDUS, ASTERISK>>, <<239, 187, 191, LATIN_SMALL_LETTER_A>>}

\* Sequences of four bytes and overlong sequences of two: the encodings of
\* U+10000 and U+10FFFF, F4 90 80 80 above U+10FFFF, and the overlong forms
\* F0 8F BF BF, C0 80 and C1 BF.
EncodingExamples ==
    {<<240, 144, 128, 128>>, <<244, 143, 191, 191>>, <<244, 144, 128, 128>>,
     <<240, 143, 191, 191>>, <<192, 128>>, <<193, 191>>}

DecoderInputs == SeqsUpTo(ByteAlphabet, MaxBytes) \cup DecoderExamples \cup EncodingExamples

(***************************************************************************)
(* Spec: TokenizeCodePoints on a preprocessed input.                       *)
(* SpecDecode: Parse, and its CreateCodePointsStream, on a byte buffer.    *)
(***************************************************************************)
Init == InitTokenizer(TokenizerInputs) /\ InitDecoder({<<>>}, {TRUE})

Next == TokenizeStep \/ TokenizeReturn

Spec == Init /\ [][Next]_vars

InitDecode == InitDecoder(DecoderInputs, BOOLEAN) /\ InitTokenizer({<<>>})

NextDecode == CreateCodePointsStream \/ UTF8DecodeByte \/ UTF8DecodeEnd \/ Parse

SpecDecode == InitDecode /\ [][NextDecode]_vars

(***************************************************************************)
(* Properties                                                              *)
(***************************************************************************)
IsQuote(c) == c = QUOTATION_MARK \/ c = APOSTROPHE

\* The input opens a string at offset 0 and the code point at index k
\* (1-based) is a newline reached inside it: nothing before it closes the
\* string or escapes.
NewlineInsideString(stream, k) ==
    /\ Len(stream) >= 2
    /\ IsQuote(stream[1])
    /\ k \in 2..Len(stream)
    /\ IsNewline(stream[k])
    /\ \A j \in 2..(k - 1) : stream[j] \notin {stream[1], REVERSE_SOLIDUS, LINE_FEED}

\* C1: a newline inside a quoted string is recovered: the tokenizer does not
\* fail, the first token it pushes is BadString, the cursor after it is at
\* the newline, and tokenizing goes on to return success.
C1_NewlineInStringRecovered ==
    \A k \in 1..Len(inputStream) :
        NewlineInsideString(inputStream, k) =>
            /\ tstate # "failed"
            /\ Len(output) >= 1 =>
                   (output[1].type = "BadString" /\ spans[1] = <<0, k - 1>>)

\* The input is a string opened at offset 0 that is never closed: no later
\* code point is the delimiter, a newline or a backslash.
UnterminatedString(stream) ==
    /\ Len(stream) >= 1
    /\ IsQuote(stream[1])
    /\ \A j \in 2..Len(stream) : stream[j] \notin {stream[1], REVERSE_SOLIDUS, LINE_FEED}

\* The input is url( followed by plain url code points and no closing
\* parenthesis.
UnterminatedURL(stream) ==
    /\ Len(stream) >= 4
    /\ SubSeq(stream, 1, 4) = URLPrefix
    /\ \A j \in 5..Len(stream) : stream[j] = LATIN_SMALL_LETTER_A

\* C2: when the input ends inside a string or inside an unquoted url(, the
\* tokenizer does not fail and returns the String or URL token holding the
\* code points accumulated so far.
C2_EndOfInputInStringOrURL ==
    /\ UnterminatedString(inputStream) =>
           /\ tstate # "failed"
           /\ tstate = "ok" =>
                  output = <<CreateString(SubSeq(inputStream, 2, Len(inputStream)))>>
    /\ UnterminatedURL(inputStream) =>
           /\ tstate # "failed"
           /\ tstate = "ok" =>
                  output = <<CreateURL(SubSeq(inputStream, 5, Len(inputStream)))>>

\* The comments of an input over CommentAlphabet, by the rule of CSS Syntax:
\* a comment opens at a SOLIDUS ASTERISK outside of any comment and closes at
\* the first ASTERISK SOLIDUS that lies after the opener.  The result is the
\* offset where an unterminated comment opens, or -1.
RECURSIVE CommentCloseFrom(_, _)
CommentCloseFrom(stream, p) ==
    IF p + 1 >= Len(stream) THEN -1
    ELSE IF stream[p + 1] = ASTERISK /\ stream[p + 2] = SOLIDUS THEN p + 2
    ELSE CommentCloseFrom(stream, p + 1)

RECURSIVE UnterminatedCommentAt(_, _)
UnterminatedCommentAt(stream, p) ==
    IF p + 1 >= Len(stream) THEN -1
    ELSE IF stream[p + 1] = SOLIDUS /\ stream[p + 2] = ASTERISK
    THEN LET close == CommentCloseFrom(stream, p + 2)
         IN  IF close = -1 THEN p ELSE UnterminatedCommentAt(stream, close)
    ELSE UnterminatedCommentAt(stream, p + 1)

EndsWithCommentOpener(stream) ==
    /\ Len(stream) >= 2
    /\ \A j \in 1..Len(stream) : stream[j] \in CommentAlphabet
    /\ UnterminatedCommentAt(stream, 0) = Len(stream) - 2

\* C3: an input that ends with SOLIDUS ASTERISK opening a comment makes
\* TokenizeCodePoints return failure (it does not return success).
C3_UnterminatedCommentFails ==
    EndsWithCommentOpener(inputStream) => tstate \notin {"ok", "crashed"}

Forbidden(c) ==
    IsSurrogate(c) \/ c = FORM_FEED \/ c = CARRIAGE_RETURN \/ c = NULL_CODE_POINT

\* C4: when CreateCodePointsStream returns success its output holds no
\* surrogate, no U+000C, no U+000D and no U+0000, and PushCodePoint has never
\* been handed a surrogate.
C4_NoForbiddenCodePoint ==
    /\ ~asserted
    /\ dstate = "ok" => \A k \in 1..Len(decoded) : ~Forbidden(decoded[k])

\* The decoder has returned success on ED A0 and one more byte, the start of
\* an encoded surrogate.
C4_Witness ==
    /\ dstate = "ok"
    /\ Len(text) = 3
    /\ text[1] = 237
    /\ text[2] = 160
    /\ Len(decoded) >= 2

StartsWithUTF16BOM(bytes) ==
    /\ Len(bytes) >= 2
    /\ \/ (bytes[1] = 254 /\ bytes[2] = 255)
       \/ (bytes[1] = 255 /\ bytes[2] = 254)

\* C5: for every input that starts with FE FF or FF FE, whatever its length,
\* CreateCodePointsStream returns failure and produces no code point.
C5_UTF16BOMFails ==
    (StartsWithUTF16BOM(text) /\ dstate # "start") =>
        (dstate = "failed" /\ decoded = <<>>)

\* C6: a ConsumeToken call that starts before the end of the input and
\* returns success leaves the cursor strictly greater than it was, so the
\* loop of TokenizeCodePoints runs at most once per code point consumed: the
\* number of tokens pushed never exceeds the cursor nor the input's length.
C6_CursorAdvances ==
    /\ [][(tstate = "running" /\ position < Len(inputStream) /\ tstate' # "failed")
              => position' > position]_vars
    /\ [](Len(output) <= position /\ Len(output) <= Len(inputStream))

\* A numeric token has been pushed after the reconsume of a PLUS_SIGN.
C6_Witness ==
    /\ Len(inputStream) >= 2
    /\ inputStream[1] = PLUS_SIGN
    /\ Len(output) = 1
    /\ output[1].type = "Number"
    /\ position = 2

\* The offset of the first code point of the last run of whitespace of the
\* input, or 0 when the input has no whitespace.
RECURSIVE RunStart(_, _)
RunStart(stream, p) ==
    IF p > 0 /\ IsWhitespace(stream[p]) THEN RunStart(stream, p - 1) ELSE p

RECURSIVE LastWhitespaceRun(_, _)
LastWhitespaceRun(stream, p) ==
    IF p = 0 THEN 0
    ELSE IF IsWhitespace(stream[p]) THEN RunStart(stream, p)
    ELSE LastWhitespaceRun(stream, p - 1)

\* C7: for a prefix A of an input A||B of digits, letters, signs and spaces,
\* if tokenizing A alone and tokenizing A||B both succeed, every token of A alone that ends at or before A's last
\* run of whitespace is also the token of A||B at the same index.
C7_Concatenation ==
    (tstate = "ok" /\ \A j \in 1..Len(inputStream) : inputStream[j] \in UnitAlphabet) =>
        \A k \in 0..Len(inputStream), g \in Garbage, u \in GarbageTokens :
            LET A == SubSeq(inputStream, 1, k)
                alone == TokenizeCodePoints(A, g, u)
                boundary == LastWhitespaceRun(A, Len(A))
            IN  alone.ok =>
                    \A j \in 1..Len(alone.tokens) :
                        alone.tokens[j].to <= boundary =>
                            (j <= Len(output) /\ output[j] = alone.tokens[j].tok)

\* The run of ident code points of the input from the 1-based index k on.
RECURSIVE IdentRun(_, _)
IdentRun(stream, k) ==
    IF k <= Len(stream) /\ IsIdent(stream[k])
    THEN <<stream[k]>> \o IdentRun(stream, k + 1)
    ELSE <<>>

\* C8: COMMERCIAL_AT followed by an ident-start code point gives one
\* AtKeyword token holding the ident sequence, and not Delim(@).
C8_AtKeyword ==
    (/\ Len(inputStream) >= 2
     /\ inputStream[1] = COMMERCIAL_AT
     /\ IsIdentStart(inputStream[2])
     /\ \A j \in 1..Len(inputStream) : inputStream[j] # REVERSE_SOLIDUS
     /\ Len(output) >= 1)
        => output[1] = CreateAtKeyword(IdentRun(inputStream, 2))

\* C9: a REVERSE_SOLIDUS followed by a code point that is not a newline starts
\* an ident-like token, and the input \41 B gives the one token Ident("AB").
C9_EscapeStartsIdent ==
    /\ (/\ Len(inputStream) >= 2
        /\ inputStream[1] = REVERSE_SOLIDUS
        /\ ~IsNewline(inputStream[2])
        /\ Len(output) >= 1)
           => output[1].type \in {"Ident", "Function", "URL", "BadURL"}
    /\ (/\ inputStream = <<REVERSE_SOLIDUS, ZERO + 4, ZERO + 1, SPACE, LATIN_CAPITAL_LETTER_A + 1>>
        /\ tstate = "ok")
           => output = <<CreateIdent(<<LATIN_CAPITAL_LETTER_A, LATIN_CAPITAL_LETTER_A + 1>>)>>

DedicatedKind(c) ==
    IF c = LEFT_PARENTHESIS THEN "LeftParenthesis"
    ELSE IF c = RIGHT_PARENTHESIS THEN "RightParenthesis"
    ELSE IF c = LEFT_SQUARE_BRACKET THEN "LeftSquareBracket"
    ELSE IF c = RIGHT_SQUARE_BRACKET THEN "RightSquareBracket"
    ELSE IF c = LEFT_CURLY_BRACKET THEN "LeftCurlyBracket"
    ELSE IF c = RIGHT_CURLY_BRACKET THEN "RightCurlyBracket"
    ELSE IF c = COMMA THEN "Comma"
    ELSE IF c = COLON THEN "Colon"
    ELSE IF c = SEMI_COLON THEN "SemiColon"
    ELSE "none"

\* C10: every token that starts at one of ( ) [ ] { } , : ; has the kind
\* dedicated to that code point, never Delim.
C10_DedicatedPunctuation ==
    \A j \in 1..Len(output) :
        LET c == inputStream[spans[j][1] + 1]
        IN  DedicatedKind(c) # "none" => output[j].type = DedicatedKind(c)

\* The input begins with an ident of plain code points, other than url, and
\* a LEFT_PARENTHESIS right after it.
BeginsWithFunction(stream) ==
    /\ Len(stream) >= 2
    /\ IsIdentStart(stream[1])
    /\ Len(IdentRun(stream, 1)) < Len(stream)
    /\ stream[Len(IdentRun(stream, 1)) + 1] = LEFT_PARENTHESIS
    /\ ~IsURLName(IdentRun(stream, 1))

\* C11: an ident other than url that is followed by LEFT_PARENTHESIS gives a
\* Function token holding the ident, and the token consumes the parenthesis:
\* it ends after it.
C11_FunctionConsumesParenthesis ==
    (BeginsWithFunction(inputStream) /\ Len(output) >= 1) =>
        /\ output[1] = CreateFunction(IdentRun(inputStream, 1))
        /\ spans[1] = <<0, Len(IdentRun(inputStream, 1)) + 1>>

\* The input begins with url( and then a quotation mark or an apostrophe,
\* or one whitespace code point and then one of these.
BeginsWithQuotedURL(stream) ==
    /\ Len(stream) >= 5
    /\ SubSeq(stream, 1, 4) = URLPrefix
    /\ \/ IsQuote(stream[5])
       \/ (Len(stream) >= 6 /\ IsWhitespace(stream[5]) /\ IsQuote(stream[6]))

\* C12: url( followed by a quotation mark or an apostrophe, optionally after
\* whitespace, gives Function("url"), which ends after the parenthesis; the
\* quoted string is left to the next token.
C12_QuotedURLIsFunction ==
    (BeginsWithQuotedURL(inputStream) /\ Len(output) >= 1) =>
        /\ output[1] = CreateFunction(SubSeq(inputStream, 1, 3))
        /\ spans[1] = <<0, 4>>

\* The input is a run of k digits followed by a run of letters that reaches
\* the end of the input.
NumberThenUnit(stream, k) ==
    /\ k \in 1..(Len(stream) - 1)
    /\ \A j \in 1..k : IsDigit(stream[j])
    /\ \A j \in (k + 1)..Len(stream) : IsLetter(stream[j])

\* C13: a number immediately followed by an ident sequence gives a single
\* Dimension token whose unit is the ident sequence, also when the unit runs
\* to the end of the input.
C13_NumberWithUnitIsDimension ==
    \A k \in 1..Len(inputStream) :
        (NumberThenUnit(inputStream, k) /\ tstate = "ok") =>
            /\ Len(output) = 1
            /\ output[1].type = "Dimension"
            /\ output[1].value = SubSeq(inputStream, k + 1, Len(inputStream))

\* The code points of the input from the 1-based index k on would start an
\* ident sequence, by the rule of CSS Syntax for inputs without escapes; the
\* end of the input matches nothing.
WouldStartIdentSequence(stream, k) ==
    /\ k <= Len(stream)
    /\ \/ IsIdentStart(stream[k])
       \/ /\ stream[k] = HYPHEN_MINUS
          /\ k + 1 <= Len(stream)
          /\ (IsIdentStart(stream[k + 1]) \/ stream[k + 1] = HYPHEN_MINUS)

\* C14: NUMBER_SIGN followed by an ident code point gives a Hash token that
\* holds the ident sequence and whose id flag is true exactly when the code
\* points after the NUMBER_SIGN would start an ident sequence, also when
\* fewer than three code points follow.
C14_HashIdFlag ==
    (/\ Len(inputStream) >= 2
     /\ inputStream[1] = NUMBER_SIGN
     /\ IsIdent(inputStream[2])
     /\ \A j \in 1..Len(inputStream) : inputStream[j] # REVERSE_SOLIDUS
     /\ Len(output) >= 1)
        => output[1] = CreateHash(IdentRun(inputStream, 2),
                                  WouldStartIdentSequence(inputStream, 2))

\* Dimension(42, integer, "px").
Dimension42px ==
    CreateDimension([isInteger |-> TRUE, value |-> [kind |-> "int64", val |-> 42, exp |-> 0]],
                    <<LATIN_SMALL_LETTER_A + 15, LATIN_SMALL_LETTER_A + 23>>)

RunStartWithin(stream, from, to) ==
    IF RunStart(stream, to) < from THEN from ELSE RunStart(stream, to)

\* The code points of the input from offset from up to offset r are one
\* comment: they open with SOLIDUS ASTERISK and close with ASTERISK SOLIDUS.
IsCommentSpan(stream, from, r) ==
    /\ r >= from + 3
    /\ stream[from + 1] = SOLIDUS
    /\ stream[from + 2] = ASTERISK
    /\ stream[r - 1] = ASTERISK
    /\ stream[r] = SOLIDUS

C16_MarkupAroundIdent ==
    (inputStream = MarkupExample /\ tstate = "ok") =>
        output = <<Token("CDO"), CreateIdent(<<LATIN_SMALL_LETTER_A + 23>>), Token("CDC")>>

\* The code points at offsets from .. from + Len(s) - 1 of the input are s.
StartsWith(stream, from, s) ==
    /\ from + Len(s) <= Len(stream)
    /\ SubSeq(stream, from + 1, from + Len(s)) = s

\* C16, amended: a token that starts at "<!--" is CDO and a token that starts
\* at "-->" is CDC, each consuming these code points only; an identifier
\* takes every ident code point after it, hyphens included, so that the
\* hyphens of a "-->" right after an identifier belong to the identifier:
\* "<!--x-->" gives exactly CDO, Ident("x--"), Delim(>).
C16_MarkupAtTokenStart ==
    /\ \A j \in 1..Len(output) :
           /\ StartsWith(inputStream, spans[j][1],
                         <<LESS_THAN_SIGN, EXCLAMATION_MARK, HYPHEN_MINUS, HYPHEN_MINUS>>)
                  => (output[j] = Token("CDO") /\ spans[j][2] = spans[j][1] + 4)
           /\ StartsWith(inputStream, spans[j][1],
                         <<HYPHEN_MINUS, HYPHEN_MINUS, GREATER_THAN_SIGN>>)
                  => (output[j] = Token("CDC") /\ spans[j][2] = spans[j][1] + 3)
           /\ (/\ \A k \in 1..Len(inputStream) : inputStream[k] \in MarkupAlphabet
               /\ IsIdentStart(inputStream[spans[j][1] + 1]))
                  => output[j] = CreateIdent(IdentRun(inputStream, spans[j][1] + 1))
    /\ (inputStream = MarkupExample /\ tstate = "ok") =>
           output = <<Token("CDO"),
                      CreateIdent(<<LATIN_SMALL_LETTER_A + 23, HYPHEN_MINUS, HYPHEN_MINUS>>),
                      CreateDelim(GREATER_THAN_SIGN)>>

\* The tokenizer has returned on "<!--x-->" with CDO first and a Delim last.
C16_Witness ==
    /\ inputStream = MarkupExample
    /\ tstate = "ok"
    /\ Len(output) = 3
    /\ output[1].type = "CDO"
    /\ output[3].type = "Delim"

\* The decimal digits of a natural number, most significant first.
RECURSIVE DigitsOf(_)
DigitsOf(n) == IF n < 10 THEN <<n>> ELSE DigitsOf(n \div 10) \o <<n % 10>>

\* The decimal digits of the magnitude of a stored integer val * 10^exp.
StoredDigits(num) ==
    IF num.val = 0 THEN <<0>>
    ELSE DigitsOf(Abs(num.val)) \o [k \in 1..num.exp |-> 0]

RECURSIVE StripLeadingZeros(_)
StripLeadingZeros(digits) ==
    IF Len(digits) > 1 /\ digits[1] = 0 THEN StripLeadingZeros(Tail(digits)) ELSE digits

\* The digits written in the input at offsets p .. end - 1.
SourceDigits(stream, p, end) == [k \in 1..(end - p) |-> stream[p + k] - ZERO]

\* The offset of the first digit of a number that starts at offset from.
AfterSign(stream, from) ==
    IF stream[from + 1] = PLUS_SIGN \/ stream[from + 1] = HYPHEN_MINUS THEN from + 1 ELSE from

\* Token j is a numeric token with the integer flag, written in the input as
\* an optional sign and at most 18 digits.
IsIntegerToken(j) ==
    /\ output[j].type \in {"Number", "Percentage", "Dimension"}
    /\ output[j].flag
    /\ AfterSign(inputStream, spans[j][1]) < Len(inputStream)
    /\ IsDigit(inputStream[AfterSign(inputStream, spans[j][1]) + 1])
    /\ DigitRunEnd(inputStream, AfterSign(inputStream, spans[j][1]))
           - AfterSign(inputStream, spans[j][1]) <= 18

\* C17: a numeric token with the integer flag stores a 64-bit integer whose
\* magnitude is the decimal value of the digits of the source and whose sign
\* is the sign of the source, for every digit string that fits int64 (the
\* strings of at most 18 digits here); 4294967296 is stored as 4294967296.
C17_IntegerStoresDecimalValue ==
    \A j \in 1..Len(output) :
        IsIntegerToken(j) =>
            LET p == AfterSign(inputStream, spans[j][1])
                digits == StripLeadingZeros(
                              SourceDigits(inputStream, p, DigitRunEnd(inputStream, p)))
            IN  /\ output[j].num.kind = "int64"
                /\ StoredDigits(output[j].num) = digits
                /\ output[j].num.val < 0 <=>
                       (inputStream[spans[j][1] + 1] = HYPHEN_MINUS /\ digits # <<0>>)

\* The stored integer written in base 10: a HYPHEN_MINUS when it is negative,
\* then the digits of its magnitude.
Serialise(num) ==
    (IF num.val < 0 THEN <<HYPHEN_MINUS>> ELSE <<>>)
        \o [k \in 1..Len(StoredDigits(num)) |-> ZERO + StoredDigits(num)[k]]

\* The stored integer has at most 15 decimal digits, so its magnitude fits
\* 52 bits.
Fits52Bits(num) == num.kind = "int64" /\ Len(StoredDigits(num)) <= 15

\* C18: for every Number token with the integer flag whose magnitude fits 52
\* bits, tokenizing the base 10 text of its stored value succeeds and gives
\* one token, equal to it: a Number with the integer flag and the same value.
C18_IntegerRoundTrip ==
    \A j \in 1..Len(output) :
        (output[j].type = "Number" /\ output[j].flag /\ Fits52Bits(output[j].num)) =>
            \A g \in Garbage, u \in GarbageTokens :
                /\ TokenizeCodePoints(Serialise(output[j].num), g, u).ok
                /\ Len(TokenizeCodePoints(Serialise(output[j].num), g, u).tokens) = 1
                /\ TokenizeCodePoints(Serialise(output[j].num), g, u).tokens[1].tok = output[j]

\* C19: Parse returns success only if decoding the bytes succeeds and
\* tokenizing the decoded code points succeeds as well: when Parse has
\* returned true, TokenizeCodePoints accepts the code points, so that the
\* bytes of an unterminated comment make Parse return false.
C19_ParseComposesBothStages ==
    pstate = "ok" =>
        /\ dstate = "ok"
        /\ \A g \in Garbage, u \in GarbageTokens : TokenizeCodePoints(decoded, g, u).ok

StartsWithUTF8BOM(bytes) ==
    /\ Len(bytes) >= 3
    /\ SubSeq(bytes, 1, 3) = <<239, 187, 191>>

\* C20: when the input begins with EF BB BF the three bytes contribute no
\* code point: CreateCodePointsStream does not fail and UTF8Decode runs on
\* the bytes from offset 3 on, and EF BB BF followed by "a" decodes to the
\* code points that tokenize to Ident("a").
C20_UTF8BOMSkipped ==
    (StartsWithUTF8BOM(text) /\ dstate # "start") =>
        /\ dstate # "failed"
        /\ inputPosition >= 3
        /\ (text = <<239, 187, 191, LATIN_SMALL_LETTER_A>> /\ dstate = "ok") =>
               \A g \in Garbage, u \in GarbageTokens :
                   /\ TokenizeCodePoints(decoded, g, u).ok
                   /\ Len(TokenizeCodePoints(decoded, g, u).tokens) = 1
                   /\ TokenizeCodePoints(decoded, g, u).tokens[1].tok
                          = CreateIdent(<<LATIN_SMALL_LETTER_A>>)

\* C21: no ConsumeToken call, failed ones included, leaves the cursor before
\* the position at which it began, so the spans of the pushed tokens do not
\* overlap and lie in input order: each token begins after the token before
\* it began and not before that token ended.
C21_NoRetreatBeforeCallStart ==
    /\ [][position' >= position]_vars
    /\ [](\A j \in 1..Len(spans) :
              /\ spans[j][1] <= spans[j][2]
              /\ j > 1 => (spans[j - 1][1] < spans[j][1] /\ spans[j - 1][2] <= spans[j][1]))

\* A numeric token has been pushed as the second token after the reconsume of
\* a PLUS_SIGN that follows an identifier.
C21_Witness ==
    /\ Len(inputStream) = 3
    /\ inputStream[2] = PLUS_SIGN
    /\ Len(output) = 2
    /\ output[2].type = "Number"
    /\ spans[2] = <<1, 3>>

\* The offset after the run of whitespace that begins at offset p.
RECURSIVE WhitespaceRunEnd(_, _)
WhitespaceRunEnd(stream, p) ==
    IF p < Len(stream) /\ IsWhitespace(stream[p + 1])
    THEN WhitespaceRunEnd(stream, p + 1) ELSE p

\* A code point that an unquoted url argument holds as it stands.
IsPlainURLCodePoint(c) ==
    /\ ~IsWhitespace(c)
    /\ ~IsNonPrintable(c)
    /\ c \notin {QUOTATION_MARK, APOSTROPHE, LEFT_PARENTHESIS, RIGHT_PARENTHESIS,
                 REVERSE_SOLIDUS}

\* The offset after the run of plain url code points that begins at offset p.
RECURSIVE PlainURLRunEnd(_, _)
PlainURLRunEnd(stream, p) ==
    IF p < Len(stream) /\ IsPlainURLCodePoint(stream[p + 1])
    THEN PlainURLRunEnd(stream, p + 1) ELSE p

\* Where the argument of an input that begins with url( starts and ends, and
\* where the whitespace after it ends.
URLArgumentStart(stream) == WhitespaceRunEnd(stream, 4)

URLArgumentEnd(stream) == PlainURLRunEnd(stream, URLArgumentStart(stream))

URLArgumentClose(stream) == WhitespaceRunEnd(stream, URLArgumentEnd(stream))

\* The input begins with url(, whitespace, an argument of plain code points,
\* whitespace and a RIGHT_PARENTHESIS.
BeginsWithClosedURL(stream) ==
    /\ Len(stream) >= 5
    /\ SubSeq(stream, 1, 4) = URLPrefix
    /\ URLArgumentClose(stream) < Len(stream)
    /\ stream[URLArgumentClose(stream) + 1] = RIGHT_PARENTHESIS

\* C22: an unquoted url( argument closed by RIGHT_PARENTHESIS gives one URL
\* token that ends after the parenthesis and holds the argument without the
\* whitespace before and after it; "url( http://x )" gives exactly
\* URL("http://x").
C22_UnquotedURL ==
    /\ (BeginsWithClosedURL(inputStream) /\ Len(output) >= 1) =>
           /\ output[1] = CreateURL(SubSeq(inputStream, URLArgumentStart(inputStream) + 1,
                                           URLArgumentEnd(inputStream)))
           /\ spans[1] = <<0, URLArgumentClose(inputStream) + 1>>
    /\ (inputStream = URLExample /\ tstate # "running") =>
           /\ tstate = "ok"
           /\ output = <<CreateURL(SubSeq(URLExample, 6, 13))>>

\* The tokenizer has returned on "url( http://x )" with one URL token.
C22_Witness ==
    /\ inputStream = URLExample
    /\ tstate = "ok"
    /\ Len(output) = 1
    /\ output[1].type = "URL"
    /\ Len(output[1].value) = 8

\* The string that opens at offset 0, read from offset p on with the value
\* acc so far, for strings made of plain code points and of REVERSE_SOLIDUS
\* newline pairs: whether it is closed, where it ends, its value and how many
\* pairs it holds.  Any other escape, a bare newline and the end of the input
\* leave it not closed.
RECURSIVE ContinuedString(_, _, _, _)
ContinuedString(stream, p, acc, pairs) ==
    IF p >= Len(stream)
    THEN [closed |-> FALSE, end |-> p, value |-> acc, pairs |-> pairs]
    ELSE IF stream[p + 1] = stream[1]
    THEN [closed |-> TRUE, end |-> p + 1, value |-> acc, pairs |-> pairs]
    ELSE IF stream[p + 1] = REVERSE_SOLIDUS /\ p + 1 < Len(stream) /\ IsNewline(stream[p + 2])
    THEN ContinuedString(stream, p + 2, acc, pairs + 1)
    ELSE IF stream[p + 1] = REVERSE_SOLIDUS \/ IsNewline(stream[p + 1])
    THEN [closed |-> FALSE, end |-> p, value |-> acc, pairs |-> pairs]
    ELSE ContinuedString(stream, p + 1, Append(acc, stream[p + 1]), pairs)

FirstTokenIsString(r) ==
    (r.closed /\ r.pairs >= 1) => (output[1] = CreateString(r.value) /\ spans[1] = <<0, r.end>>)

\* C23: inside a string a REVERSE_SOLIDUS followed by a newline is consumed
\* and adds nothing to the value, and the string goes on after it: a closed
\* string with such pairs gives the String token of its other code points,
\* and "a\<LF>b" gives exactly String("ab").
C23_EscapedNewlineInString ==
    /\ (Len(inputStream) >= 1 /\ IsQuote(inputStream[1]) /\ Len(output) >= 1) =>
           FirstTokenIsString(ContinuedString(inputStream, 1, <<>>, 0))
    /\ (inputStream = ContinuedStringExample /\ tstate # "running") =>
           /\ tstate = "ok"
           /\ output = <<CreateString(<<LATIN_SMALL_LETTER_A, LATIN_SMALL_LETTER_A + 1>>)>>

\* The tokenizer has returned on "a\<LF>b" with one String token of two code
\* points.
C23_Witness ==
    /\ inputStream = ContinuedStringExample
    /\ tstate = "ok"
    /\ Len(output) = 1
    /\ output[1].type = "String"
    /\ Len(output[1].value) = 2

\* The input is made of ASCII letters, digits and whitespace only.
IsPlainText(stream) ==
    \A k \in 1..Len(stream) :
        IsLetter(stream[k]) \/ IsDigit(stream[k]) \/ IsWhitespace(stream[k])

\* C24: for an input made only of ASCII letters, digits and whitespace, no
\* token of the output and no token built in the token buffer is BadString
\* or BadURL.
C24_PlainTextHasNoBadToken ==
    IsPlainText(inputStream) =>
        /\ \A j \in 1..Len(output) : output[j].type \notin {"BadString", "BadURL"}
        /\ token.type \notin {"BadString", "BadURL"}

\* The tokenizer has returned on "url a 1", where the name url is followed by
\* whitespace, with its five tokens.
C24_Witness ==
    /\ inputStream = PlainExample
    /\ tstate = "ok"
    /\ Len(output) = 5
    /\ output[1].type = "Ident"

\* The bytes from the 1-based index k on with each CR LF pair, each other CR
\* and each FF replaced by one LF.
RECURSIVE Preprocessed(_, _)
Preprocessed(bytes, k) ==
    IF k > Len(bytes) THEN <<>>
    ELSE IF bytes[k] = CARRIAGE_RETURN
    THEN <<LINE_FEED>> \o Preprocessed(bytes, IF k < Len(bytes) /\ bytes[k + 1] = LINE_FEED
                                              THEN k + 2 ELSE k + 1)
    ELSE IF bytes[k] = FORM_FEED THEN <<LINE_FEED>> \o Preprocessed(bytes, k + 1)
    ELSE <<bytes[k]>> \o Preprocessed(bytes, k + 1)

\* C25: an LF is dropped only when the value right before it was CR; any
\* other value between a CR and an LF clears the flag.  For an input of
\* ASCII bytes other than NUL the output is the input with each CR LF pair,
\* each remaining CR and each FF replaced by one LF.
C25_OnlyCRLFDropsLineFeed ==
    (dstate = "ok" /\ \A k \in 1..Len(text) : text[k] \in 1..127) =>
        decoded = Preprocessed(text, 1)

\* A comment opens at offset p of the input.
OpensComment(stream, p) ==
    p + 1 < Len(stream) /\ stream[p + 1] = SOLIDUS /\ stream[p + 2] = ASTERISK

\* The offset after two adjacent comments at the start of the input, or -1
\* when the input does not begin with two adjacent closed comments.
AfterTwoComments(stream) ==
    IF ~OpensComment(stream, 0) \/ CommentCloseFrom(stream, 2) = -1 THEN -1
    ELSE IF ~OpensComment(stream, CommentCloseFrom(stream, 2)) THEN -1
    ELSE CommentCloseFrom(stream, CommentCloseFrom(stream, 2) + 2)

TokensOf(r) == [j \in 1..Len(r.tokens) |-> r.tokens[j].tok]

\* C26: all consecutive comments before a token are skipped: an input made of
\* two adjacent comments and a text X after them gives exactly the tokens of
\* X, and "/*a*//*b*/x" gives only Ident("x").
C26_ConsecutiveCommentsSkipped ==
    (AfterTwoComments(inputStream) # -1 /\ tstate # "running") =>
        /\ tstate = "ok"
        /\ \E g \in Garbage, u \in GarbageTokens :
               LET X == SubSeq(inputStream, AfterTwoComments(inputStream) + 1,
                               Len(inputStream))
               IN  /\ TokenizeCodePoints(X, g, u).ok
                   /\ output = TokensOf(TokenizeCodePoints(X, g, u))

\* C27: a comment ends only at an asterisk and solidus that lie entirely
\* after the opener, so the solidus of the opener never closes it: an input
\* that begins "/*/" and has no later "*/" is an unterminated comment, and
\* the tokenizer fails on it.
C27_OpenerDoesNotCloseComment ==
    (/\ Len(inputStream) >= 3
     /\ OpensComment(inputStream, 0)
     /\ inputStream[3] = SOLIDUS
     /\ CommentCloseFrom(inputStream, 2) = -1
     /\ tstate # "running") =>
        tstate = "failed"

\* C28: when the cursor reaches the end of the input after a comment was
\* skipped, no token is emitted for that call: an input that is one complete
\* comment tokenizes successfully to the empty token sequence.
C28_CommentAtEndEmitsNothing ==
    (/\ OpensComment(inputStream, 0)
     /\ CommentCloseFrom(inputStream, 2) = Len(inputStream)
     /\ tstate # "running") =>
        (tstate = "ok" /\ output = <<>>)

\* The 1-based index after the run of at most six hex digits that starts at
\* index k of the input.
RECURSIVE HexRunEnd(_, _, _)
HexRunEnd(stream, k, n) ==
    IF n < 6 /\ k <= Len(stream) /\ IsHexDigit(stream[k])
    THEN HexRunEnd(stream, k + 1, n + 1)
    ELSE k

\* The number written by the hex digits at the indexes from..to of the input.
RECURSIVE HexValue(_, _, _)
HexValue(stream, from, to) ==
    IF to < from THEN 0
    ELSE 16 * HexValue(stream, from, to - 1)
            + (IF stream[to] \in 48..57 THEN stream[to] - 48
               ELSE IF stream[to] \in 65..70 THEN stream[to] - 55
               ELSE stream[to] - 87)

\* The code point a hex escape of value v stands for.
HexEscapeYields(v) ==
    IF v = 0 \/ v \in 55296..57343 \/ v > 1114111 THEN REPLACEMENT ELSE v

\* The input is an ident-start code point, a hex escape closed by a space,
\* and ident code points without an escape after it.
IsIdentWithHexEscape(stream) ==
    /\ Len(stream) >= 4
    /\ IsIdentStart(stream[1])
    /\ stream[2] = REVERSE_SOLIDUS
    /\ IsHexDigit(stream[3])
    /\ HexRunEnd(stream, 3, 0) <= Len(stream)
    /\ stream[HexRunEnd(stream, 3, 0)] = SPACE
    /\ \A j \in (HexRunEnd(stream, 3, 0) + 1)..Len(stream) :
           IsIdent(stream[j]) /\ stream[j] # REVERSE_SOLIDUS

\* C29: a hex escape yields U+FFFD exactly when its value is 0, a surrogate
\* or above U+10FFFF, and the code point of that value otherwise: hex 30
\* yields U+0030 and hex 0 yields U+FFFD.
C29_HexEscapeValue ==
    (IsIdentWithHexEscape(inputStream) /\ tstate # "running") =>
        /\ tstate = "ok"
        /\ output
             = <<CreateIdent(
                   <<inputStream[1],
                     HexEscapeYields(HexValue(inputStream, 3, HexRunEnd(inputStream, 3, 0) - 1))>>
                   \o SubSeq(inputStream, HexRunEnd(inputStream, 3, 0) + 1, Len(inputStream)))>>

\* C30: for a preprocessed input, which holds no U+0000, no token of the
\* output carries U+0000 in its payload.
C30_NoNullInPayload ==
    (\A j \in 1..Len(inputStream) : inputStream[j] # NULL_CODE_POINT) =>
        \A k \in 1..Len(output) :
            \A j \in 1..Len(output[k].value) : output[k].value[j] # NULL_CODE_POINT

\* C31: for every preprocessed input the tokenizer indexes the input only at
\* positions strictly below its length, also when a number, a NUMBER_SIGN or
\* a hex escape are the last code points of the input.
C31_NoReadPastEnd ==
    (\A j \in 1..Len(inputStream) : inputStream[j] # NULL_CODE_POINT) => ~oobRead

\* The code points at the 1-based indexes k and k + 1 of the input form a
\* valid escape; an index past the end matches nothing.
ValidEscapeAt(stream, k) ==
    /\ k + 1 <= Len(stream)
    /\ stream[k] = REVERSE_SOLIDUS
    /\ stream[k + 1] # LINE_FEED

\* The three-case rule of the would-start-an-ident-sequence check at the
\* offset p of the input; an index past the end matches nothing.
ThreeCaseRule(stream, p) ==
    /\ p + 1 <= Len(stream)
    /\ \/ IsIdentStart(stream[p + 1])
       \/ /\ stream[p + 1] = HYPHEN_MINUS
          /\ \/ (p + 2 <= Len(stream) /\ IsIdentStart(stream[p + 2]))
             \/ (p + 2 <= Len(stream) /\ stream[p + 2] = HYPHEN_MINUS)
             \/ ValidEscapeAt(stream, p + 2)
       \/ ValidEscapeAt(stream, p + 1)

\* C32: at every position p of the input the would-start-an-ident-sequence
\* check returns exactly what the three-case rule says, with positions past
\* the end of the input matching nothing; in particular it is true whenever
\* the code point at p is ident-start, however few code points follow.
C32_WouldStartIdentSequence ==
    \A p \in 0..Len(inputStream) :
        DoThreeCodePointsStartIndentSequence(inputStream, p) = ThreeCaseRule(inputStream, p)

IsNumericToken(tok) == tok.type \in {"Number", "Percentage", "Dimension"}

\* The payload of the token was stored as a 64-bit integer.
StoredAsInteger(tok) == tok.num.kind \in {"int64", "overflow"}

\* C33: the numeric payload is stored as a 64-bit integer exactly when the
\* integer flag of the token is true and as a floating-point value exactly
\* when it is false; a number with an exponent and neither a fraction nor a
\* minus sign in the exponent has the flag false and a floating-point payload.
C33_PayloadKindMatchesFlag ==
    \A k \in 1..Len(output) :
        IsNumericToken(output[k]) => (output[k].flag <=> StoredAsInteger(output[k]))

\* The number written by the decimal digits at the offsets from..to - 1 of
\* the input.
RECURSIVE DecimalValue(_, _, _)
DecimalValue(stream, from, to) ==
    IF to <= from THEN 0
    ELSE 10 * DecimalValue(stream, from, to - 1) + (stream[to] - ZERO)

IsSign(c) == c = PLUS_SIGN \/ c = HYPHEN_MINUS

IsExponentIndicator(c) == c = LATIN_SMALL_LETTER_E \/ c = LATIN_CAPITAL_LETTER_E

\* The parts of the number that starts the input: its sign s, the offsets of
\* its integer digits [i0, i1), of its fraction digits [f0, f1) after a full
\* stop followed by a digit, and of its exponent digits [e0, e1) with the sign
\* t after an exponent indicator followed by a digit or by a sign and a digit.
NumberSign(stream) ==
    [s |-> IF stream[1] = HYPHEN_MINUS THEN -1 ELSE 1,
     i0 |-> IF IsSign(stream[1]) THEN 1 ELSE 0]

NumberFraction(stream, n, i1) ==
    IF i1 + 2 <= Len(stream) /\ stream[i1 + 1] = FULL_STOP /\ IsDigit(stream[i1 + 2])
    THEN [s |-> n.s, i0 |-> n.i0, i1 |-> i1, f0 |-> i1 + 1,
          f1 |-> DigitRunEnd(stream, i1 + 1)]
    ELSE [s |-> n.s, i0 |-> n.i0, i1 |-> i1, f0 |-> i1, f1 |-> i1]

NumberExponentAt(n, t, e0, e1) ==
    [s |-> n.s, i0 |-> n.i0, i1 |-> n.i1, f0 |-> n.f0, f1 |-> n.f1,
     t |-> t, e0 |-> e0, e1 |-> e1]

NumberExponent(stream, n) ==
    IF /\ n.f1 + 2 <= Len(stream)
       /\ IsExponentIndicator(stream[n.f1 + 1])
       /\ IsDigit(stream[n.f1 + 2])
    THEN NumberExponentAt(n, 1, n.f1 + 1, DigitRunEnd(stream, n.f1 + 1))
    ELSE IF /\ n.f1 + 3 <= Len(stream)
            /\ IsExponentIndicator(stream[n.f1 + 1])
            /\ IsSign(stream[n.f1 + 2])
            /\ IsDigit(stream[n.f1 + 3])
    THEN NumberExponentAt(n, IF stream[n.f1 + 2] = HYPHEN_MINUS THEN -1 ELSE 1,
                          n.f1 + 2, DigitRunEnd(stream, n.f1 + 2))
    ELSE NumberExponentAt(n, 1, n.f1, n.f1)

NumberParts(stream) ==
    NumberExponent(stream,
        NumberFraction(stream, NumberSign(stream),
                       DigitRunEnd(stream, NumberSign(stream).i0)))

\* The input starts with a number that has a fraction.
StartsWithFraction(stream) ==
    /\ Len(stream) >= 2
    /\ NumberParts(stream).f1 > NumberParts(stream).f0

\* s * (i + f * 10^(-d)) * 10^(t * e) as a payload: the significand
\* s * (i * 10^d + f) and the power of ten t * e - d.
AlgebraValue(stream, n) ==
    Normalised("double",
               n.s * (DecimalValue(stream, n.i0, n.i1) * Pow10(n.f1 - n.f0)
                        + DecimalValue(stream, n.f0, n.f1)),
               n.t * DecimalValue(stream, n.e0, n.e1) - (n.f1 - n.f0))

\* C34: for a number with a fraction the stored value is
\* s * (i + f * 10^(-d)) * 10^(t * e), where d is the number of fraction
\* digits and e the magnitude of the exponent: 1.5 is stored as 1.5 and
\* 3.14e-2 as 0.0314.
C34_DoubleFollowsAlgebra ==
    (StartsWithFraction(inputStream) /\ Len(output) >= 1) =>
        /\ IsNumericToken(output[1])
        /\ output[1].num = AlgebraValue(inputStream, NumberParts(inputStream))

\* C35: after a BadURL token the cursor is past the RIGHT_PARENTHESIS that
\* ends the malformed url, or at the end of the input, so that parenthesis
\* never comes out as a token of its own: url(a"b) gives exactly BadURL.
C35_BadURLConsumesParenthesis ==
    /\ \A k \in 1..Len(output) :
           output[k].type = "BadURL" =>
               \/ spans[k][2] = Len(inputStream)
               \/ inputStream[spans[k][2]] = RIGHT_PARENTHESIS
    /\ (inputStream = BadURLExample /\ tstate = "ok") => output = <<Token("BadURL")>>

\* The offset, in the input, of the first code point of the payload of the
\* Hash token output[k]: after the comment skipped by the call, if any, and
\* after the NUMBER_SIGN.
HashPayloadStart(k) == ConsumeComments(inputStream, spans[k][1]).pos + 1

\* C36 as stated: every Hash token with the id flag true has a payload whose
\* first code point is an ident-start code point or whose first two code
\* points, as written in the input, form a valid escape.
C36_IdPayloadStartsWithIdentStart ==
    \A k \in 1..Len(output) :
        (output[k].type = "Hash" /\ output[k].flag) =>
            \/ (Len(output[k].value) >= 1 /\ IsIdentStart(output[k].value[1]))
            \/ ValidEscapeAt(inputStream, HashPayloadStart(k) + 1)

\* C36: every Hash token with the id flag true has a payload whose source
\* text would start an ident sequence: it begins with an ident-start code
\* point, with HYPHEN_MINUS followed by an ident-start code point, a
\* HYPHEN_MINUS or a valid escape, or with a valid escape.
C36_IdPayloadStartsIdentSequence ==
    \A k \in 1..Len(output) :
        (output[k].type = "Hash" /\ output[k].flag) =>
            /\ inputStream[HashPayloadStart(k)] = NUMBER_SIGN
            /\ ThreeCaseRule(inputStream, HashPayloadStart(k))

\* A Hash token with the id flag true whose payload begins with HYPHEN_MINUS
\* has been emitted and the tokenizer has returned.
C36_Witness ==
    /\ tstate = "ok"
    /\ \E k \in 1..Len(output) :
           /\ output[k].type = "Hash"
           /\ output[k].flag
           /\ output[k].value[1] = HYPHEN_MINUS

\* C37: when TokenizeCodePoints returns failure the caller's output vector
\* is as it was before the call, here empty: the call never delivers the
\* tokens of a prefix of the input.
C37_FailureLeavesOutputUntouched ==
    tstate = "failed" => output = <<>>

\* The index of the first 0x00 byte of the input at or after the index k,
\* or 0 when there is none.
RECURSIVE FirstNull(_, _)
FirstNull(bytes, k) ==
    IF k > Len(bytes) THEN 0
    ELSE IF bytes[k] = 0 THEN k
    ELSE FirstNull(bytes, k + 1)

\* The position at which CreateCodePointsStream starts UTF8Decode.
DecodeStart == IF BOMSniff(text, 0, charIsSigned) = "UTF8" THEN 3 ELSE 0

\* C38: a 0x00 byte ends decoding: when UTF8Decode has returned on an input
\* with a 0x00 byte, its output is its output on the bytes before the first
\* 0x00 byte (with one U+FFFD at the end if a multi-byte sequence was
\* pending), and the cursor is still at that byte, so that no byte after it
\* has been decoded.
C38_NullEndsDecoding ==
    (dstate = "ok" /\ FirstNull(text, DecodeStart + 1) # 0) =>
        /\ inputPosition = FirstNull(text, DecodeStart + 1) - 1
        /\ decoded = UTF8Decode(SubSeq(text, 1, FirstNull(text, DecodeStart + 1) - 1),
                                DecodeStart).output

\* UTF8Decode has returned at a 0x00 byte that follows the first byte of a
\* multi-byte sequence and is followed by another byte.
C38_Witness ==
    /\ dstate = "ok"
    /\ Len(text) = 3
    /\ text[1] = 194
    /\ text[2] = 0
    /\ decoded = <<REPLACEMENT>>

\* The decoder is in a continuation state and the byte under the cursor is
\* not 0x00 and lies outside the current window.
ContinuationOutsideWindow ==
    /\ dstate = "decoding"
    /\ inputPosition < Len(text)
    /\ bytesNeeded # 0
    /\ text[inputPosition + 1] # 0
    /\ (text[inputPosition + 1] < lowerBoundary \/ text[inputPosition + 1] > upperBoundary)

\* The step emits one U+FFFD, returns to the initial state with the window
\* 0x80..0xBF and leaves the cursor on the byte.
RejectsWithoutConsuming ==
    /\ decoded' = Append(decoded, REPLACEMENT)
    /\ inputPosition' = inputPosition
    /\ codePoint' = 0
    /\ bytesNeeded' = 0
    /\ bytesSeen' = 0
    /\ lowerBoundary' = 128
    /\ upperBoundary' = 191
    /\ dstate' = "decoding"

\* C39: when a continuation byte lies outside the current window the decoder
\* emits exactly one U+FFFD, returns to the initial state with the window
\* 0x80..0xBF and does not consume the byte, which is then decoded as the
\* first byte of a new sequence: C2 41 decodes to U+FFFD, U+0041.
C39_OutsideWindowNotConsumed ==
    /\ [][ContinuationOutsideWindow => RejectsWithoutConsuming]_vars
    /\ []((text = <<194, LATIN_CAPITAL_LETTER_A>> /\ dstate = "ok") =>
              decoded = <<REPLACEMENT, LATIN_CAPITAL_LETTER_A>>)

\* The decoder has just rejected the byte 0x41 after the lead byte C2: one
\* U+FFFD is out, the state is initial and the cursor is on the 0x41.
C39_Witness ==
    /\ dstate = "decoding"
    /\ text = <<194, LATIN_CAPITAL_LETTER_A>>
    /\ inputPosition = 1
    /\ bytesNeeded = 0
    /\ decoded = <<REPLACEMENT>>

\* The UTF-8 encoding of the value c, in one to four bytes.
Encode(c) ==
    IF c < 128 THEN <<c>>
    ELSE IF c < 2048 THEN <<192 + (c \div 64), 128 + (c % 64)>>
    ELSE IF c < 65536
    THEN <<224 + (c \div 4096), 128 + ((c \div 64) % 64), 128 + (c % 64)>>
    ELSE <<240 + (c \div 262144), 128 + ((c \div 4096) % 64), 128 + ((c \div 64) % 64),
           128 + (c % 64)>>

IsContinuationByte(b) == b >= 128 /\ b <= 191

\* The bytes have the form of one encoded value: a single byte below 0x80,
\* or a lead byte followed by as many continuation bytes as it announces.
IsEncodedForm(bytes) ==
    \/ (Len(bytes) = 1 /\ bytes[1] <= 127)
    \/ /\ Len(bytes) \in 2..4
       /\ \A k \in 2..Len(bytes) : IsContinuationByte(bytes[k])
       /\ \/ (Len(bytes) = 2 /\ bytes[1] \in 192..223)
          \/ (Len(bytes) = 3 /\ bytes[1] \in 224..239)
          \/ (Len(bytes) = 4 /\ bytes[1] \in 240..247)

\* The value that bytes of the form above carry.
EncodedValue(bytes) ==
    IF Len(bytes) = 1 THEN bytes[1]
    ELSE IF Len(bytes) = 2 THEN (bytes[1] - 192) * 64 + (bytes[2] - 128)
    ELSE IF Len(bytes) = 3
    THEN (bytes[1] - 224) * 4096 + (bytes[2] - 128) * 64 + (bytes[3] - 128)
    ELSE (bytes[1] - 240) * 262144 + (bytes[2] - 128) * 4096 + (bytes[3] - 128) * 64
             + (bytes[4] - 128)

IsScalarValue(c) == c <= 1114111 /\ ~(c >= 55296 /\ c <= 57343)

\* The bytes are the well-formed encoding of one scalar value: not overlong,
\* not a surrogate, not above U+10FFFF.
IsWellFormedEncoding(bytes) ==
    /\ IsEncodedForm(bytes)
    /\ IsScalarValue(EncodedValue(bytes))
    /\ Encode(EncodedValue(bytes)) = bytes

OnlyReplacements(out) == \A k \in 1..Len(out) : out[k] = REPLACEMENT

\* C40: round trip: UTF8Decode run on the well-formed encoding of a scalar
\* value c other than U+0000, U+000C and U+000D yields exactly the one code
\* point c; an overlong form, an encoded surrogate and an encoded value above
\* U+10FFFF never decode to a code point, only to U+FFFD.
C40_RoundTrip ==
    /\ (IsWellFormedEncoding(text) /\ EncodedValue(text) \notin {0, 12, 13}) =>
           /\ UTF8Decode(text, 0).output = <<EncodedValue(text)>>
           /\ (dstate = "ok" /\ DecodeStart = 0) => decoded = <<EncodedValue(text)>>
    /\ (IsEncodedForm(text) /\ ~IsWellFormedEncoding(text)) =>
           /\ OnlyReplacements(UTF8Decode(text, 0).output)
           /\ OnlyReplacements(decoded)

\* The decoder has returned on the four bytes of the encoding of U+10FFFF
\* with that one code point.
C40_Witness ==
    /\ dstate = "ok"
    /\ text = Encode(1114111)
    /\ decoded = <<1114111>>

====
